---- MODULE Spec2Model ----
(***************************************************************************)
(* flapjak: a read-only LDAP directory.  This module models the DN/RDN      *)
(* model and the Directory Information Tree of db.go, the filter parser    *)
(* and evaluator of filter.go and the request handlers of server.go.       *)
(*                                                                         *)
(* Text is modelled as a sequence of one-character strings (Go runes), so  *)
(* that case folding, trimming, splitting and parsing are computed         *)
(* character by character as the code computes them.                       *)
(***************************************************************************)
EXTENDS Integers, Sequences, FiniteSets, TLC

VARIABLES dit, call, flt

vars == <<dit, call, flt>>

(***************************************************************************)
(* Bounds of the model.                                                    *)
(***************************************************************************)
\* Largest number of nodes of the tree (the root included).
MaxNodes == 4
\* Longest list of entries handed to one AddEntries call.
MaxBatch == 2
\* Deepest nesting of and/or/not around the innermost filter.
MaxDepth == 2
\* Deepest nesting of and/or/not in the filter texts handed to Parse.
MaxNest == 1
\* Largest number of comma-separated components of the DN texts.
MaxComps == 2
\* Largest number of keys of the JSON objects handed to NewEntryFromMap.
MaxKeys == 3
\* Longest list of userPassword values of an entry that authenticates.
MaxCreds == 2

(***************************************************************************)
(* Text helpers: the parts of Go's strings and unicode packages used.      *)
(***************************************************************************)
UpperRunes ==
  <<"A","B","C","D","E","F","G","H","I","J","K","L","M",
    "N","O","P","Q","R","S","T","U","V","W","X","Y","Z">>

LowerRunes ==
  <<"a","b","c","d","e","f","g","h","i","j","k","l","m",
    "n","o","p","q","r","s","t","u","v","w","x","y","z">>

DigitRunes == <<"0","1","2","3","4","5","6","7","8","9">>

SpaceRunes == {" ", "\t", "\n", "\r"}

Range(s) == {s[i] : i \in 1..Len(s)}

\* The lower-case rune of every upper-case rune.
LowerOf ==
  [r \in Range(UpperRunes) |->
     LowerRunes[CHOOSE i \in 1..Len(UpperRunes) : UpperRunes[i] = r]]

\* unicode.ToLower on one rune (ASCII).
LowerRune(r) == IF r \in DOMAIN LowerOf THEN LowerOf[r] ELSE r

\* strings.ToLower
ToLower(s) == [i \in 1..Len(s) |-> LowerRune(s[i])]

\* A rune outside ASCII is written by its code point.  U+017F is the long s:
\* a lower-case letter (unicode.ToLower leaves it alone) that
\* unicode.SimpleFold puts in the orbit of S and s.
LongS == "U+017F"

\* The representative of the unicode.SimpleFold orbit of a rune.
FoldRune(r) == IF r = LongS THEN "s" ELSE LowerRune(r)

\* strings.EqualFold: equal under simple case folding, rune by rune.
EqualFold(s, t) ==
  /\ Len(s) = Len(t)
  /\ \A i \in 1..Len(s) : FoldRune(s[i]) = FoldRune(t[i])

\* The runes of the model in the order of their code points, which is the
\* order of their UTF-8 bytes.
RuneSeq ==
  <<"\t", "\n", "\r", " ", "!", "$", "&", "(", ")", "*", ",", "-", ".">>
  \o DigitRunes \o <<":", "<", "=", ">">> \o UpperRunes
  \o LowerRunes \o <<"{", "|", "}", "~", LongS>>

CodeOf == [r \in Range(RuneSeq) |-> CHOOSE i \in 1..Len(RuneSeq) : RuneSeq[i] = r]

\* The < of Go strings: byte-wise lexicographic order.
RECURSIVE StringLess(_, _)
StringLess(s, t) ==
  IF t = <<>> THEN FALSE
  ELSE IF s = <<>> THEN TRUE
  ELSE IF CodeOf[Head(s)] # CodeOf[Head(t)] THEN CodeOf[Head(s)] < CodeOf[Head(t)]
  ELSE StringLess(Tail(s), Tail(t))

\* strings.Compare
StringCompare(s, t) == IF s = t THEN 0 ELSE IF StringLess(s, t) THEN -1 ELSE 1

\* unicode.IsLetter and unicode.IsDigit (ASCII).
Letters == Range(UpperRunes) \cup Range(LowerRunes)

Digits == Range(DigitRunes)

IsLetter(r) == r \in Letters

IsDigit(r) == r \in Digits

\* slices.Index: the first position of r in s, 0 when r is not in s
\* (positions are 1-based here, Go's -1 is 0).
Index(s, r) ==
  IF \E i \in 1..Len(s) : s[i] = r
  THEN CHOOSE i \in 1..Len(s) : s[i] = r /\ \A j \in 1..(i-1) : s[j] # r
  ELSE 0

\* strings.TrimSpace
TrimSpace(s) ==
  LET keep == {i \in 1..Len(s) : s[i] \notin SpaceRunes}
  IN IF keep = {} THEN <<>>
     ELSE LET lo == CHOOSE i \in keep : \A j \in keep : i <= j
              hi == CHOOSE i \in keep : \A j \in keep : j <= i
          IN SubSeq(s, lo, hi)

(***************************************************************************)
(* RDN and DN (db.go).  A DN is a sequence of RDNs, root-most first.       *)
(***************************************************************************)
\* RDN.Equal: names case-insensitively, values case-sensitively.
RDNEqual(rdn, rhs) ==
  IF ~EqualFold(rdn.Name, rhs.Name) THEN FALSE ELSE rdn.Value = rhs.Value

\* RDN.Compare: by lower-cased name, then by value.
RDNCompare(rdn, rhs) ==
  LET lname == ToLower(rdn.Name)
      rname == ToLower(rhs.Name)
  IN IF StringLess(lname, rname) THEN -1
     ELSE IF StringLess(rname, lname) THEN 1
     ELSE StringCompare(rdn.Value, rhs.Value)

\* DN.IsAncestor that wants sub to be longer than dn.
IsAncestorStrict(dn, sub) ==
  IF Len(dn) >= Len(sub) THEN FALSE
  ELSE \A i \in 1..Len(dn) : EqualFold(dn[i].Name, sub[i].Name) /\ dn[i].Value = sub[i].Value

\* DN.IsAncestor: dn's components are a prefix of sub's.
IsAncestor(dn, sub) ==
  IF Len(dn) > Len(sub) THEN FALSE
  ELSE \A i \in 1..Len(dn) : RDNEqual(dn[i], sub[i])

\* DN.Equal: slices.EqualFunc(dn, rhs, RDN.Equal)
DNEqual(dn, rhs) ==
  /\ Len(dn) = Len(rhs)
  /\ \A i \in 1..Len(dn) : RDNEqual(dn[i], rhs[i])

\* DN.IsEmpty
IsEmpty(dn) == Len(dn) = 0

\* RDN.String and DN.String: leaf-first, joined by ",".
RDNString(rdn) == rdn.Name \o <<"=">> \o rdn.Value

\* DN.String that renders the components root-most first.
RECURSIVE DNStringForward(_)
DNStringForward(dn) ==
  IF Len(dn) = 0 THEN <<>>
  ELSE IF Len(dn) = 1 THEN RDNString(dn[1])
  ELSE RDNString(dn[1]) \o <<",">> \o DNStringForward(Tail(dn))

RECURSIVE DNString(_)
DNString(dn) ==
  IF Len(dn) = 0 THEN <<>>
  ELSE IF Len(dn) = 1 THEN RDNString(dn[1])
  ELSE RDNString(dn[Len(dn)]) \o <<",">> \o DNString(SubSeq(dn, 1, Len(dn) - 1))

(***************************************************************************)
(* Entries and attributes (db.go).                                         *)
(***************************************************************************)
\* Entry.AddAttr that stores the attribute under its name as given.
AddAttrAsGiven(e, attr) ==
  [e EXCEPT !.Attrs =
     [k \in DOMAIN e.Attrs \cup {attr.Name} |-> IF k = attr.Name THEN attr ELSE e.Attrs[k]]]

\* Entry.AddAttr: the attribute is stored under its lower-cased name.
AddAttr(e, attr) ==
  LET key == ToLower(attr.Name)
  IN [e EXCEPT !.Attrs =
        [k \in DOMAIN e.Attrs \cup {key} |-> IF k = key THEN attr ELSE e.Attrs[k]]]

\* Entry.GetAttr: lookup under the lower-cased name.
HasAttr(e, name) == ToLower(name) \in DOMAIN e.Attrs

GetAttr(e, name) == e.Attrs[ToLower(name)]

\* Attr.HasValue: slices.Contains, case-sensitive.
HasValue(a, val) == \E i \in 1..Len(a.Vals) : a.Vals[i] = val

(***************************************************************************)
(* The entries the model loads.  Each is what NewEntryFromMap builds from  *)
(* a JSON object: a DN and the attributes added one by one with AddAttr.   *)
(***************************************************************************)
tObjectClass == <<"o","b","j","e","c","t","C","l","a","s","s">>

tUid == <<"u","i","d">>

tUserPassword == <<"u","s","e","r","P","a","s","s","w","o","r","d">>

tTop == <<"t","o","p">>

tPerson == <<"p","e","r","s","o","n">>

tSecret == <<"{","S","S","H","A","}","x">>

RDN(name, value) == [Name |-> name, Value |-> value]

dnRoot == <<>>

dnCom == <<RDN(<<"d","c">>, <<"a">>)>>

dnPeople == <<RDN(<<"d","c">>, <<"a">>), RDN(<<"o","u">>, <<"p">>)>>

dnGroups == <<RDN(<<"d","c">>, <<"a">>), RDN(<<"o","u">>, <<"g">>)>>

dnAlice ==
  <<RDN(<<"d","c">>, <<"a">>), RDN(<<"o","u">>, <<"p">>), RDN(tUid, <<"x">>)>>

\* The DN of dnPeople with its names in upper case: Equal to dnPeople.
dnPeopleUC == <<RDN(<<"D","C">>, <<"a">>), RDN(<<"O","U">>, <<"p">>)>>

\* The DN of dnCom with its value in upper case: not Equal to dnCom.
dnComA == <<RDN(<<"d","c">>, <<"A">>)>>

Attr(name, vals) == [Name |-> name, Vals |-> vals]

RECURSIVE AddAttrs(_, _)
AddAttrs(e, attrs) ==
  IF attrs = <<>> THEN e
  ELSE AddAttrs(AddAttr(e, Head(attrs)), Tail(attrs))

MkEntry(dn, attrs) == AddAttrs([DN |-> dn, Attrs |-> <<>>], attrs)

eCom == MkEntry(dnCom, <<Attr(tObjectClass, <<tTop>>)>>)

ePeople == MkEntry(dnPeople, <<Attr(tObjectClass, <<tTop>>)>>)

eGroups == MkEntry(dnGroups, <<Attr(tObjectClass, <<tTop>>)>>)

eAlice ==
  MkEntry(dnAlice, <<Attr(tObjectClass, <<tTop, tPerson>>),
                     Attr(tUid, <<<<"x">>>>),
                     Attr(tUserPassword, <<tSecret>>)>>)

ePeopleUC == MkEntry(dnPeopleUC, <<Attr(tObjectClass, <<tPerson>>)>>)

eComA == MkEntry(dnComA, <<Attr(tObjectClass, <<tTop>>)>>)

\* An entry built as a struct literal with the empty DN.
eEmptyDN == MkEntry(dnRoot, <<Attr(tObjectClass, <<tTop>>)>>)

EntryPool == {eCom, ePeople, eGroups, eAlice, ePeopleUC, eComA, eEmptyDN}

DNPool == {e.DN : e \in EntryPool}

(***************************************************************************)
(* The Directory Information Tree (db.go).  The tree is a heap of nodes:   *)
(* dit[n] is the DITNode at address n, its children a sequence of          *)
(* addresses (the []*DITNode slice).  Address 1 is db.DIT, the root;       *)
(* address 0 is the nil pointer.  insert allocates the next address.       *)
(***************************************************************************)
Root == 1

Nil == 0

\* NewDB: the root entry's map literal is keyed "objectClass" as written.
NewDB ==
  <<[Entry |-> [DN |-> dnRoot,
                Attrs |-> [k \in {tObjectClass} |-> Attr(tObjectClass, <<tTop>>)]],
     children |-> <<>>]>>

\* The children of node n whose DN is an ancestor of dn, in slice order.
ChildrenAbove(h, n, dn) ==
  SelectSeq(h[n].children, LAMBDA c : IsAncestor(h[c].Entry.DN, dn))

\* DITNode.insert: the heap after the call and whether it returned an error.
RECURSIVE insert(_, _, _)

\* insert that leaves the children it is an ancestor of where they are.
insertNoAdopt(h, n, entry) ==
  IF DNEqual(entry.DN, h[n].Entry.DN)
  THEN [err |-> TRUE, dit |-> h]
  ELSE IF ChildrenAbove(h, n, entry.DN) # <<>>
  THEN insert(h, Head(ChildrenAbove(h, n, entry.DN)), entry)
  ELSE [err |-> FALSE,
        dit |-> Append([h EXCEPT ![n].children = Append(@, Len(h) + 1)],
                       [Entry |-> entry, children |-> <<>>])]

\* insert that never descends into the child above the entry.
insertNoDescend(h, n, entry) ==
  IF DNEqual(entry.DN, h[n].Entry.DN)
  THEN [err |-> TRUE, dit |-> h]
  ELSE LET adopted == SelectSeq(h[n].children,
                                LAMBDA c : IsAncestor(entry.DN, h[c].Entry.DN))
           siblings == SelectSeq(h[n].children,
                                 LAMBDA c : ~IsAncestor(entry.DN, h[c].Entry.DN))
       IN [err |-> FALSE,
           dit |-> Append([h EXCEPT ![n].children = Append(siblings, Len(h) + 1)],
                          [Entry |-> entry, children |-> adopted])]

\* insert whose duplicate test compares the DNs case-sensitively.
insertExactDup(h, n, entry) ==
  IF entry.DN = h[n].Entry.DN
  THEN [err |-> TRUE, dit |-> h]
  ELSE IF ChildrenAbove(h, n, entry.DN) # <<>>
  THEN insert(h, Head(ChildrenAbove(h, n, entry.DN)), entry)
  ELSE LET adopted == SelectSeq(h[n].children,
                                LAMBDA c : IsAncestor(entry.DN, h[c].Entry.DN))
           siblings == SelectSeq(h[n].children,
                                 LAMBDA c : ~IsAncestor(entry.DN, h[c].Entry.DN))
       IN [err |-> FALSE,
           dit |-> Append([h EXCEPT ![n].children = Append(siblings, Len(h) + 1)],
                          [Entry |-> entry, children |-> adopted])]

\* insert that leaves the children the new node takes over in the list of
\* their old parent as well.
insertKeepBoth(h, n, entry) ==
  IF DNEqual(entry.DN, h[n].Entry.DN)
  THEN [err |-> TRUE, dit |-> h]
  ELSE IF ChildrenAbove(h, n, entry.DN) # <<>>
  THEN insert(h, Head(ChildrenAbove(h, n, entry.DN)), entry)
  ELSE LET adopted == SelectSeq(h[n].children,
                                LAMBDA c : IsAncestor(entry.DN, h[c].Entry.DN))
       IN [err |-> FALSE,
           dit |-> Append([h EXCEPT ![n].children = Append(@, Len(h) + 1)],
                          [Entry |-> entry, children |-> adopted])]

insert(h, n, entry) ==
  IF DNEqual(entry.DN, h[n].Entry.DN)
  THEN [err |-> TRUE, dit |-> h]
  ELSE IF ChildrenAbove(h, n, entry.DN) # <<>>
  THEN insert(h, Head(ChildrenAbove(h, n, entry.DN)), entry)
  ELSE LET newnode == Len(h) + 1
           adopted == SelectSeq(h[n].children,
                                LAMBDA c : IsAncestor(entry.DN, h[c].Entry.DN))
           siblings == SelectSeq(h[n].children,
                                 LAMBDA c : ~IsAncestor(entry.DN, h[c].Entry.DN))
       IN [err |-> FALSE,
           dit |-> Append([h EXCEPT ![n].children = Append(siblings, newnode)],
                          [Entry |-> entry, children |-> adopted])]

\* DB.AddEntries: insert in order, stop at the first error.
RECURSIVE AddEntries(_, _)

\* AddEntries that skips a duplicate and goes on with the rest of the list.
AddEntriesSkip(h, entries) ==
  IF entries = <<>> THEN [err |-> FALSE, dit |-> h]
  ELSE LET r == insert(h, Root, Head(entries))
           rest == AddEntries(r.dit, Tail(entries))
       IN [err |-> r.err \/ rest.err, dit |-> rest.dit]

AddEntries(h, entries) ==
  IF entries = <<>> THEN [err |-> FALSE, dit |-> h]
  ELSE LET r == insert(h, Root, Head(entries))
       IN IF r.err THEN r ELSE AddEntries(r.dit, Tail(entries))

\* DITNode.Find: the address of the node with the given DN, Nil if none.
RECURSIVE Find(_, _, _)

\* Find that answers with the nearest stored ancestor of a DN that is not stored.
FindNearest(h, n, dn) ==
  IF DNEqual(h[n].Entry.DN, dn) THEN n
  ELSE IF ~IsAncestor(h[n].Entry.DN, dn) THEN Nil
  ELSE IF ChildrenAbove(h, n, dn) # <<>>
  THEN Find(h, Head(ChildrenAbove(h, n, dn)), dn)
  ELSE n

Find(h, n, dn) ==
  IF DNEqual(h[n].Entry.DN, dn) THEN n
  ELSE IF ~IsAncestor(h[n].Entry.DN, dn) THEN Nil
  ELSE IF ChildrenAbove(h, n, dn) # <<>>
  THEN Find(h, Head(ChildrenAbove(h, n, dn)), dn)
  ELSE Nil

\* DITNode.Self, DITNode.Children: the sequence of nodes the iterator yields.
Self(h, n) == <<n>>

Children(h, n) == h[n].children

\* DITNode.walk: the node, then each child's walk in slice order.
RECURSIVE walk(_, _)
RECURSIVE walkAll(_, _)

\* walk that yields the node after its children's walks.
walkPostOrder(h, n) == walkAll(h, h[n].children) \o <<n>>

walk(h, n) == <<n>> \o walkAll(h, h[n].children)

walkAll(h, cs) ==
  IF cs = <<>> THEN <<>> ELSE walk(h, Head(cs)) \o walkAll(h, Tail(cs))

\* DITNode.All
All(h, n) == walk(h, n)

\* DN.CommonAncestor: the leading RDNs of dn that are Equal to those of other.
RECURSIVE CommonAncestorLoop(_, _, _)
CommonAncestorLoop(dn, other, i) ==
  IF i > Len(dn) \/ i > Len(other) THEN <<>>
  ELSE IF ~RDNEqual(dn[i], other[i]) THEN <<>>
  ELSE <<dn[i]>> \o CommonAncestorLoop(dn, other, i + 1)

CommonAncestor(dn, other) == CommonAncestorLoop(dn, other, 1)

\* DN.Tail: dn[len(c):] for the common ancestor c of dn and head.
DNTail(dn, head) == SubSeq(dn, Len(CommonAncestor(dn, head)) + 1, Len(dn))

\* fmt.Sprintf("%*s", level, ""): level spaces.
Pad(level) == [i \in 1..level |-> " "]

\* DITNode.str: the line of the node, unless it is the root, then the text of
\* each child in slice order, two columns further in below a node with a line.
RECURSIVE str(_, _, _, _)
RECURSIVE strAll(_, _, _, _)

\* str that writes the whole DN of the node instead of its tail.
strFullDN(h, n, parent, level) ==
  IF ~IsEmpty(h[n].Entry.DN)
  THEN Pad(level) \o DNString(h[n].Entry.DN) \o <<"\n">>
       \o strAll(h, h[n].children, h[n].Entry.DN, level + 2)
  ELSE strAll(h, h[n].children, h[n].Entry.DN, level)

str(h, n, parent, level) ==
  IF ~IsEmpty(h[n].Entry.DN)
  THEN Pad(level) \o DNString(DNTail(h[n].Entry.DN, parent)) \o <<"\n">>
       \o strAll(h, h[n].children, h[n].Entry.DN, level + 2)
  ELSE strAll(h, h[n].children, h[n].Entry.DN, level)

strAll(h, cs, parent, level) ==
  IF cs = <<>> THEN <<>>
  ELSE str(h, Head(cs), parent, level) \o strAll(h, Tail(cs), parent, level)

\* DITNode.String
String(h, n) == str(h, n, <<>>, 0)

(***************************************************************************)
(* The filter parser (filter.go).  A parse function returns the error it   *)
(* panicked with ("" when none), the node it built and the cursor position *)
(* after it; positions are 1-based, so the cursor is at EOF when it is     *)
(* past the last rune.                                                     *)
(***************************************************************************)
NilNode == [kind |-> "nil"]

Fail(err) == [err |-> err, node |-> NilNode, pos |-> 0]

Ok(node, pos) == [err |-> "", node |-> node, pos |-> pos]

\* cursor.isEOF
isEOF(in, pos) == pos > Len(in)

\* cursor.expectRune: "" and the cursor moved by one, or the error.
expectRune(in, pos, r) ==
  IF isEOF(in, pos) THEN Fail("ErrUnexpectedEOF")
  ELSE IF in[pos] # r THEN Fail("ErrUnexpectedInput")
  ELSE Ok(NilNode, pos + 1)

\* cursor.extractTo: the position of the first r at or after pos, the
\* position past the end when there is none.
RECURSIVE extractTo(_, _, _)
extractTo(in, pos, r) ==
  IF ~isEOF(in, pos) /\ in[pos] # r THEN extractTo(in, pos + 1, r) ELSE pos

\* isOp
isOp(op) == op \in {<<"=">>, <<"<", "=">>, <<">", "=">>, <<"~", "=">>}

\* isValidAttrRune; pos is the 0-based index of the rune in the name.
isValidAttrRune(pos, r) ==
  IF pos = 0 THEN IsLetter(r)
  ELSE r = "." \/ IsLetter(r) \/ IsDigit(r)

\* validateAttrName that only rejects the empty name.
validateAttrNameLax(rs) ==
  IF Len(rs) = 0 THEN "ErrEmptyAttrName" ELSE ""

\* validateAttrName: the error it panics with, "" when the name is valid.
validateAttrName(rs) ==
  IF Len(rs) = 0 THEN "ErrEmptyAttrName"
  ELSE IF \E i \in 1..Len(rs) : ~isValidAttrRune(i - 1, rs[i])
  THEN "ErrInvalidAttrName"
  ELSE ""

\* parseOpFilter that builds an Equality node for every operator.
parseOpFilterAnyOp(in, pos) ==
  LET close == extractTo(in, pos, ")")
      rs == SubSeq(in, pos, close - 1)
      e == expectRune(in, close, ")")
      idx == Index(rs, "=")
      two == idx > 1 /\ isOp(SubSeq(rs, idx - 1, idx))
      attr == IF two THEN SubSeq(rs, 1, idx - 2) ELSE SubSeq(rs, 1, idx - 1)
      value == SubSeq(rs, idx + 1, Len(rs))
  IN IF e.err # "" THEN Fail(e.err)
     ELSE IF idx = 0 THEN Fail("ErrMissingOperation")
     ELSE IF validateAttrName(attr) # "" THEN Fail(validateAttrName(attr))
     ELSE IF value = <<>> THEN Fail("ErrEmptyAttrValue")
     ELSE IF ~two /\ value = <<"*">>
     THEN Ok([kind |-> "Presence", Attr |-> attr], e.pos)
     ELSE Ok([kind |-> "Equality", Attr |-> attr, Value |-> value], e.pos)

\* parseOpFilter
parseOpFilter(in, pos) ==
  LET close == extractTo(in, pos, ")")
      rs == SubSeq(in, pos, close - 1)
      e == expectRune(in, close, ")")
      idx == Index(rs, "=")
      two == idx > 1 /\ isOp(SubSeq(rs, idx - 1, idx))
      attr == IF two THEN SubSeq(rs, 1, idx - 2) ELSE SubSeq(rs, 1, idx - 1)
      op == IF two THEN SubSeq(rs, idx - 1, idx) ELSE <<"=">>
      value == SubSeq(rs, idx + 1, Len(rs))
  IN IF e.err # "" THEN Fail(e.err)
     ELSE IF idx = 0 THEN Fail("ErrMissingOperation")
     ELSE IF validateAttrName(attr) # "" THEN Fail(validateAttrName(attr))
     ELSE IF value = <<>> THEN Fail("ErrEmptyAttrValue")
     ELSE IF op = <<"=">> /\ value = <<"*">>
     THEN Ok([kind |-> "Presence", Attr |-> attr], e.pos)
     ELSE IF op = <<"=">>
     THEN Ok([kind |-> "Equality", Attr |-> attr, Value |-> value], e.pos)
     ELSE Fail("ErrUnimplemented")

RECURSIVE parseFilter(_, _)
RECURSIVE parseAndOrLoop(_, _, _)

\* The for loop of parseAndOrFilter: the child filters up to the closing
\* parenthesis; node holds the slice of children.
parseAndOrLoop(in, pos, nodes) ==
  IF isEOF(in, pos) THEN Fail("ErrUnexpectedEOF")
  ELSE IF in[pos] = "("
  THEN LET r == parseFilter(in, pos)
       IN IF r.err # "" THEN r
          ELSE parseAndOrLoop(in, r.pos, Append(nodes, r.node))
  ELSE LET e == expectRune(in, pos, ")")
       IN IF e.err # "" THEN e ELSE Ok(nodes, e.pos)

\* parseAndOrFilter that accepts an and/or without children.
parseAndOrFilterEmpty(in, pos, op) ==
  LET e == expectRune(in, pos, op)
      r == parseAndOrLoop(in, e.pos, <<>>)
  IN IF e.err # "" THEN e
     ELSE IF r.err # "" THEN r
     ELSE IF op = "&" THEN Ok([kind |-> "And", Nodes |-> r.node], r.pos)
     ELSE IF op = "|" THEN Ok([kind |-> "Or", Nodes |-> r.node], r.pos)
     ELSE Fail("ErrInternal")

\* parseAndOrFilter
parseAndOrFilter(in, pos, op) ==
  LET e == expectRune(in, pos, op)
      r == parseAndOrLoop(in, e.pos, <<>>)
  IN IF e.err # "" THEN e
     ELSE IF r.err # "" THEN r
     ELSE IF Len(r.node) = 0 THEN Fail("ErrUnexpectedInput")
     ELSE IF op = "&" THEN Ok([kind |-> "And", Nodes |-> r.node], r.pos)
     ELSE IF op = "|" THEN Ok([kind |-> "Or", Nodes |-> r.node], r.pos)
     ELSE Fail("ErrInternal")

\* parseNotFilter
parseNotFilter(in, pos) ==
  LET e == expectRune(in, pos, "!")
      r == parseFilter(in, e.pos)
      c == expectRune(in, r.pos, ")")
  IN IF e.err # "" THEN e
     ELSE IF r.err # "" THEN r
     ELSE IF c.err # "" THEN c
     ELSE Ok([kind |-> "Not", Node |-> r.node], c.pos)

\* parseFilter
parseFilter(in, pos) ==
  LET e == expectRune(in, pos, "(")
  IN IF e.err # "" THEN e
     ELSE IF isEOF(in, e.pos) THEN Fail("ErrUnexpectedEOF")
     ELSE IF in[e.pos] = "&" THEN parseAndOrFilter(in, e.pos, "&")
     ELSE IF in[e.pos] = "|" THEN parseAndOrFilter(in, e.pos, "|")
     ELSE IF in[e.pos] = "!" THEN parseNotFilter(in, e.pos)
     ELSE parseOpFilter(in, e.pos)

\* Parse without the test that the whole input was consumed.
ParseNoEOF(filter) ==
  LET in == TrimSpace(filter)
      r == parseFilter(in, 1)
  IN IF r.err # "" THEN [err |-> r.err, node |-> NilNode]
     ELSE [err |-> "", node |-> r.node]

\* Parse: the error and the node (nil with an error).
Parse(filter) ==
  LET in == TrimSpace(filter)
      r == parseFilter(in, 1)
  IN IF r.err # "" THEN [err |-> r.err, node |-> NilNode]
     ELSE IF ~isEOF(in, r.pos) THEN [err |-> "ErrUnexpectedInput", node |-> NilNode]
     ELSE [err |-> "", node |-> r.node]

(***************************************************************************)
(* Filter evaluation (filter.go).                                          *)
(***************************************************************************)
RECURSIVE Match(_, _)
RECURSIVE AndMatch(_, _)
RECURSIVE OrMatch(_, _)

\* And.Match that stops at the first child and answers with its result.
AndMatchFirst(nodes, e) ==
  IF nodes = <<>> THEN TRUE ELSE Match(Head(nodes), e)

\* And.Match: false at the first child that does not match, true at the end.
AndMatch(nodes, e) ==
  IF nodes = <<>> THEN TRUE
  ELSE IF ~Match(Head(nodes), e) THEN FALSE
  ELSE AndMatch(Tail(nodes), e)

\* Or.Match: true at the first child that matches, false at the end.
OrMatch(nodes, e) ==
  IF nodes = <<>> THEN FALSE
  ELSE IF Match(Head(nodes), e) THEN TRUE
  ELSE OrMatch(Tail(nodes), e)

\* FilterNode.Match, by the kind of the node.
Match(f, e) ==
  CASE f.kind = "Presence" -> HasAttr(e, f.Attr)
    [] f.kind = "Equality" -> HasAttr(e, f.Attr) /\ HasValue(GetAttr(e, f.Attr), f.Value)
    [] f.kind = "And" -> AndMatch(f.Nodes, e)
    [] f.kind = "Or" -> OrMatch(f.Nodes, e)
    [] f.kind = "Not" -> ~Match(f.Node, e)

(***************************************************************************)
(* The directory being loaded and read.  call records the last call made:  *)
(* its name, its arguments, what it returned and, for the calls that write *)
(* the tree, the tree it was made on.                                      *)
(***************************************************************************)
NoFilter == [kind |-> "none"]

Init ==
  /\ dit = NewDB
  /\ call = [op |-> "NewDB"]
  /\ flt = NoFilter

\* Sequences over S of length 0..n.
SeqsUpTo(S, n) == UNION {[1..k -> S] : k \in 0..n}

\* A DN that no entry of the pool has, below dnCom.
dnNobody == <<RDN(<<"d","c">>, <<"a">>), RDN(<<"o","u">>, <<"z">>)>>

FindPool == DNPool \cup {dnNobody}

\* The lists of entries handed to AddEntries.
BatchPool == SeqsUpTo(EntryPool, MaxBatch)

\* The directory is loaded before it is read (main.go): the calls that write
\* the tree are made until the first read.
Loading == call.op \in {"NewDB", "insert", "AddEntries"}

\* db.DIT.insert(e)
Insert(e) ==
  /\ Loading
  /\ Len(dit) < MaxNodes
  /\ LET r == insert(dit, Root, e)
     IN /\ dit' = r.dit
        /\ call' = [op |-> "insert", entry |-> e, err |-> r.err, pre |-> dit]
  /\ UNCHANGED flt

\* db.AddEntries(es)
AddEntriesCall(es) ==
  /\ Loading
  /\ Len(dit) + Len(es) <= MaxNodes
  /\ LET r == AddEntries(dit, es)
     IN /\ dit' = r.dit
        /\ call' = [op |-> "AddEntries", entries |-> es, err |-> r.err, pre |-> dit]
  /\ UNCHANGED flt

\* db.DIT.Find(dn)
FindCall(dn) ==
  /\ call' = [op |-> "Find", dn |-> dn, ret |-> Find(dit, Root, dn)]
  /\ UNCHANGED <<dit, flt>>

\* Draining n.Self(), n.Children() and n.All().
SelfCall(n) ==
  /\ call' = [op |-> "Self", node |-> n, ret |-> Self(dit, n)]
  /\ UNCHANGED <<dit, flt>>

ChildrenCall(n) ==
  /\ call' = [op |-> "Children", node |-> n, ret |-> Children(dit, n)]
  /\ UNCHANGED <<dit, flt>>

AllCall(n) ==
  /\ call' = [op |-> "All", node |-> n, ret |-> All(dit, n)]
  /\ UNCHANGED <<dit, flt>>

\* db.DIT.String()
StringCall ==
  /\ call' = [op |-> "String", ret |-> String(dit, Root)]
  /\ UNCHANGED <<dit, flt>>

Next ==
  \/ \E e \in EntryPool : Insert(e)
  \/ \E es \in BatchPool : AddEntriesCall(es)
  \/ \E dn \in FindPool : FindCall(dn)
  \/ \E n \in 1..Len(dit) : SelfCall(n)
  \/ \E n \in 1..Len(dit) : ChildrenCall(n)
  \/ \E n \in 1..Len(dit) : AllCall(n)
  \/ StringCall

Spec == Init /\ [][Next]_vars

(***************************************************************************)
(* Properties of the tree.                                                 *)
(***************************************************************************)
\* The addresses reachable from n through children slices, n included.
RECURSIVE Desc(_, _)
Desc(h, n) == {n} \cup UNION {Desc(h, h[n].children[i]) : i \in 1..Len(h[n].children)}

\* The (parent DN, child DN) pairs of the tree rooted at address 1.
ParentChildPairs(h) ==
  UNION {{<<h[n].Entry.DN, h[c].Entry.DN>> : c \in Range(h[n].children)} :
           n \in Desc(h, Root)}

\* The entries inserted so far, in the order their nodes were allocated.
Inserted(h) == [i \in 1..(Len(h) - 1) |-> h[i + 1].Entry]

\* The entries held by the nodes of the tree.
Stored(h) == {h[n].Entry : n \in Desc(h, Root)}

ProperAncestor(a, b) == IsAncestor(a, b) /\ ~DNEqual(a, b)

\* C1: inserting the entries of the tree into a fresh DB in any other order
\* succeeds and yields the same set of (parent DN, child DN) pairs.
C1_OrderIndependent ==
  call.op \in {"insert", "AddEntries"} =>
    \A p \in Permutations(1..(Len(dit) - 1)) :
      LET es == [i \in 1..(Len(dit) - 1) |-> Inserted(dit)[p[i]]]
          r == AddEntries(NewDB, es)
      IN /\ ~r.err
         /\ ParentChildPairs(r.dit) = ParentChildPairs(dit)

\* A grandchild was inserted first, then its parent, then its grandparent.
C1_Witness ==
  /\ call.op = "insert"
  /\ Len(dit) = 4
  /\ dit[2].Entry = eAlice /\ dit[3].Entry = ePeople /\ dit[4].Entry = eCom
  /\ ParentChildPairs(dit) =
       {<<dnRoot, dnCom>>, <<dnCom, dnPeople>>, <<dnPeople, dnAlice>>}

\* C2: every node's DN is an ancestor of the DN of each of its descendants,
\* and no DN of two siblings is an ancestor of the other's.
C2_TreeInvariant ==
  \A n \in Desc(dit, Root) :
    /\ \A d \in Desc(dit, n) : IsAncestor(dit[n].Entry.DN, dit[d].Entry.DN)
    /\ \A i, j \in 1..Len(dit[n].children) :
         i # j => ~IsAncestor(dit[dit[n].children[i]].Entry.DN,
                              dit[dit[n].children[j]].Entry.DN)

\* A failing insert on a tree in which a node was re-parented: its parent
\* was inserted after it.
C2_Witness ==
  /\ call.op = "insert" /\ call.err
  /\ \E n \in 2..Len(dit) : \E m \in 2..Len(dit) :
       /\ n < m
       /\ ProperAncestor(dit[m].Entry.DN, dit[n].Entry.DN)
       /\ n \in Range(dit[m].children)

\* C3: Find returns the node whose DN equals the DN asked for (the root for
\* the empty DN) and nil when no node has that DN.
C3_FindExact ==
  call.op = "Find" =>
    LET hits == {n \in Desc(dit, Root) : DNEqual(dit[n].Entry.DN, call.dn)}
    IN IF hits = {} THEN call.ret = Nil ELSE hits = {call.ret}

\* Find of a DN that was never inserted while an entry below it is stored.
C3_Witness ==
  /\ call.op = "Find" /\ call.ret = Nil
  /\ ~IsEmpty(call.dn)
  /\ \E n \in Desc(dit, Root) : ProperAncestor(call.dn, dit[n].Entry.DN)

\* C4: insert of an entry whose DN equals the DN of a stored entry or the
\* root's empty DN returns the duplicate error and leaves the tree as it was.
C4_DuplicateRejected ==
  (/\ call.op = "insert"
   /\ \E n \in Desc(call.pre, Root) : DNEqual(call.pre[n].Entry.DN, call.entry.DN))
  => (call.err /\ dit = call.pre)

\* The duplicate is two levels down and differs from the stored DN in the
\* case of its RDN names.
C4_Witness ==
  /\ call.op = "insert" /\ call.err
  /\ call.entry = ePeopleUC
  /\ \E n \in Desc(dit, Root) :
       /\ dit[n].Entry.DN = dnPeople
       /\ n \notin Range(dit[Root].children)

\* The index of the first entry of es whose DN equals a DN stored in h or the
\* DN of an earlier entry of es; 0 when there is none.
FirstDuplicate(h, es) ==
  LET dup(i) == \/ \E n \in Desc(h, Root) : DNEqual(h[n].Entry.DN, es[i].DN)
                \/ \E j \in 1..(i - 1) : DNEqual(es[j].DN, es[i].DN)
      dups == {i \in 1..Len(es) : dup(i)}
  IN IF dups = {} THEN 0 ELSE CHOOSE i \in dups : \A j \in dups : i <= j

\* C5: AddEntries returns the duplicate error iff the list has a duplicate,
\* and the tree then holds what it held plus the entries before the first
\* duplicate (all of them when there is none).
C5_AddEntriesPartial ==
  call.op = "AddEntries" =>
    LET i == FirstDuplicate(call.pre, call.entries)
        kept == IF i = 0 THEN call.entries ELSE SubSeq(call.entries, 1, i - 1)
    IN /\ call.err = (i # 0)
       /\ Stored(dit) = Stored(call.pre) \cup Range(kept)
       /\ Len(dit) = Len(call.pre) + Len(kept)

\* The second entry of the list is the duplicate; the first was inserted.
C5_Witness ==
  /\ call.op = "AddEntries" /\ call.err
  /\ FirstDuplicate(call.pre, call.entries) = 2
  /\ call.entries[1] \in Stored(dit) \ Stored(call.pre)

\* s enumerates the subtree of b in depth-first pre-order: b first, every
\* descendant once, the subtree of every node in one block that the node starts.
PreOrder(h, b, s) ==
  /\ Len(s) = Cardinality(Desc(h, b))
  /\ Range(s) = Desc(h, b)
  /\ s[1] = b
  /\ \A i \in 1..Len(s) :
       {j \in 1..Len(s) : s[j] \in Desc(h, s[i])}
         = i..(i + Cardinality(Desc(h, s[i])) - 1)

\* C6: Self yields the node, Children its direct children in slice order,
\* All the node and its descendants in depth-first pre-order.
C6_Traversals ==
  /\ call.op = "Self" => call.ret = <<call.node>>
  /\ call.op = "Children" =>
       /\ Len(call.ret) = Len(dit[call.node].children)
       /\ \A i \in 1..Len(call.ret) : call.ret[i] = dit[call.node].children[i]
  /\ call.op = "All" => PreOrder(dit, call.node, call.ret)

\* All on a node with two children, the first of which has a child.
C6_Witness ==
  /\ call.op = "All"
  /\ Len(dit[call.node].children) = 2
  /\ dit[dit[call.node].children[1]].children # <<>>
  /\ Len(call.ret) = 4

(***************************************************************************)
(* Filters: parsing and matching as functions of their input.  flt is the  *)
(* filter under test, written as the tree of its parentheses: a leaf       *)
(* (attr op value), an and/or over any number of filters, a not over one.  *)
(***************************************************************************)
tCn == <<"c","n">>

tUID == <<"U","I","D">>

Leaf(attr, op, value) == [kind |-> "leaf", attr |-> attr, op |-> op, value |-> value]

\* The innermost filters: leaves that parse, leaves that do not, and the
\* and/or without children.
Cores ==
  { Leaf(tUid, <<"=">>, <<"*">>),
    Leaf(tUID, <<"=">>, <<"*">>),
    Leaf(tCn, <<"=">>, <<"*">>),
    Leaf(tObjectClass, <<"=">>, <<"*">>),
    Leaf(tUid, <<"=">>, <<"x">>),
    Leaf(tUID, <<"=">>, <<"x">>),
    Leaf(tUid, <<"=">>, <<"X">>),
    Leaf(tObjectClass, <<"=">>, tTop),
    Leaf(<<>>, <<"=">>, <<"x">>),
    Leaf(tUid, <<">", "=">>, <<"x">>),
    [kind |-> "and", kids |-> <<>>],
    [kind |-> "or", kids |-> <<>>] }

\* The filters put next to another one inside an and/or: one that parses and
\* one without an attribute name.
Siblings == {Leaf(tCn, <<"=">>, <<"*">>), Leaf(<<>>, <<"=">>, <<"x">>)}

\* One more level of and/or/not around s.
Wraps(s) ==
  { [kind |-> "not", kid |-> s] }
  \cup { [kind |-> k, kids |-> ks] :
           k \in {"and", "or"},
           ks \in {<<s>>} \cup {<<b, s>> : b \in Siblings} \cup {<<s, b>> : b \in Siblings} }

RECURSIVE Shapes(_)
Shapes(d) ==
  IF d = 0 THEN Cores
  ELSE Shapes(d - 1) \cup UNION {Wraps(s) : s \in Shapes(d - 1)}

FilterPool == Shapes(MaxDepth)

\* The text of a filter.
RECURSIVE Render(_)
RECURSIVE RenderAll(_)
Render(s) ==
  CASE s.kind = "leaf" -> <<"(">> \o s.attr \o s.op \o s.value \o <<")">>
    [] s.kind = "and" -> <<"(", "&">> \o RenderAll(s.kids) \o <<")">>
    [] s.kind = "or" -> <<"(", "|">> \o RenderAll(s.kids) \o <<")">>
    [] s.kind = "not" -> <<"(", "!">> \o Render(s.kid) \o <<")">>

RenderAll(ks) ==
  IF ks = <<>> THEN <<>> ELSE Render(Head(ks)) \o RenderAll(Tail(ks))

\* A leaf that names a valid attribute, the operator = and a value.
GoodLeaf(s) ==
  /\ s.attr # <<>>
  /\ IsLetter(s.attr[1])
  /\ \A i \in 2..Len(s.attr) : s.attr[i] = "." \/ IsLetter(s.attr[i]) \/ IsDigit(s.attr[i])
  /\ s.op = <<"=">>
  /\ s.value # <<>>

\* Every leaf of the filter is a good leaf.
RECURSIVE GoodLeaves(_)
GoodLeaves(s) ==
  CASE s.kind = "leaf" -> GoodLeaf(s)
    [] s.kind \in {"and", "or"} -> \A i \in 1..Len(s.kids) : GoodLeaves(s.kids[i])
    [] s.kind = "not" -> GoodLeaves(s.kid)

\* The filter has an and/or without children.
RECURSIVE HasEmptyAndOr(_)
HasEmptyAndOr(s) ==
  CASE s.kind = "leaf" -> FALSE
    [] s.kind \in {"and", "or"} ->
         s.kids = <<>> \/ \E i \in 1..Len(s.kids) : HasEmptyAndOr(s.kids[i])
    [] s.kind = "not" -> HasEmptyAndOr(s.kid)

\* The FilterNode built from struct literals (&And{Nodes: ...}, &Presence{...})
\* for a filter whose leaves are good.
RECURSIVE Literal(_)
Literal(s) ==
  CASE s.kind = "leaf" ->
         IF s.value = <<"*">> THEN [kind |-> "Presence", Attr |-> s.attr]
         ELSE [kind |-> "Equality", Attr |-> s.attr, Value |-> s.value]
    [] s.kind = "and" -> [kind |-> "And", Nodes |-> [i \in 1..Len(s.kids) |-> Literal(s.kids[i])]]
    [] s.kind = "or" -> [kind |-> "Or", Nodes |-> [i \in 1..Len(s.kids) |-> Literal(s.kids[i])]]
    [] s.kind = "not" -> [kind |-> "Not", Node |-> Literal(s.kid)]

\* An entry whose attribute names are in upper case.
eUpper ==
  MkEntry(dnGroups, <<Attr(<<"O","B","J","E","C","T","C","L","A","S","S">>, <<tTop>>),
                      Attr(tUID, <<<<"X">>, <<"x">>>>)>>)

\* The entries filters are matched against: loaded entries and the root entry.
MatchPool == {eAlice, eCom, eUpper, NewDB[Root].Entry}

InitFilter ==
  /\ dit = NewDB
  /\ call = [op |-> "none"]
  /\ flt \in FilterPool

\* Parse(filter) on the text of flt.
ParseCall ==
  /\ LET r == Parse(Render(flt))
     IN call' = [op |-> "Parse", err |-> r.err, node |-> r.node]
  /\ UNCHANGED <<dit, flt>>

\* n.Match(e) on the node Parse returned.
MatchParsed(e) ==
  /\ call.op = "Parse" /\ call.err = ""
  /\ call' = [op |-> "Match", parsed |-> TRUE, node |-> call.node, entry |-> e,
              ret |-> Match(call.node, e)]
  /\ UNCHANGED <<dit, flt>>

\* n.Match(e) on a node built from struct literals.
MatchLiteral(e) ==
  /\ GoodLeaves(flt)
  /\ call' = [op |-> "Match", parsed |-> FALSE, node |-> Literal(flt), entry |-> e,
              ret |-> Match(Literal(flt), e)]
  /\ UNCHANGED <<dit, flt>>

NextFilter ==
  \/ ParseCall
  \/ \E e \in MatchPool : MatchParsed(e)
  \/ \E e \in MatchPool : MatchLiteral(e)

SpecFilter == InitFilter /\ [][NextFilter]_vars

(***************************************************************************)
(* Properties of the filters.                                              *)
(***************************************************************************)
\* e has an attribute whose name equals a, case-insensitively.
HasAttrNamed(e, a) == \E k \in DOMAIN e.Attrs : EqualFold(e.Attrs[k].Name, a)

\* e has such an attribute and v is one of its values.
HasAttrValue(e, a, v) ==
  \E k \in DOMAIN e.Attrs :
    /\ EqualFold(e.Attrs[k].Name, a)
    /\ \E i \in 1..Len(e.Attrs[k].Vals) : e.Attrs[k].Vals[i] = v

\* C8: the node parsed from (a=*) matches e iff e has an attribute named a
\* (case-insensitively); the node parsed from (a=v) matches e iff e has that
\* attribute with v among its values (case-sensitively).
C8_LeafMatch ==
  (call.op = "Match" /\ call.parsed /\ flt.kind = "leaf" /\ GoodLeaf(flt)) =>
    IF flt.value = <<"*">>
    THEN call.ret = HasAttrNamed(call.entry, flt.attr)
    ELSE call.ret = HasAttrValue(call.entry, flt.attr, flt.value)

\* C9: And matches iff every child matches, Or iff some child matches, Not
\* iff its child does not match.
C9_AndOrNot ==
  call.op = "Match" =>
    /\ call.node.kind = "And" =>
         call.ret = \A i \in 1..Len(call.node.Nodes) : Match(call.node.Nodes[i], call.entry)
    /\ call.node.kind = "Or" =>
         call.ret = \E i \in 1..Len(call.node.Nodes) : Match(call.node.Nodes[i], call.entry)
    /\ call.node.kind = "Not" => call.ret = ~Match(call.node.Node, call.entry)

\* An Or of an And without children and a leaf that does not match: the Or
\* matches because the empty And does.
C9_Witness ==
  /\ call.op = "Match" /\ call.ret
  /\ call.node.kind = "Or"
  /\ Len(call.node.Nodes) = 2
  /\ call.node.Nodes[1].kind = "Presence"
  /\ ~Match(call.node.Nodes[1], call.entry)
  /\ call.node.Nodes[2] = [kind |-> "And", Nodes |-> <<>>]

\* No And and no Or of the node is without children.
RECURSIVE NoEmptyAndOr(_)
NoEmptyAndOr(f) ==
  CASE f.kind \in {"And", "Or"} ->
         f.Nodes # <<>> /\ \A i \in 1..Len(f.Nodes) : NoEmptyAndOr(f.Nodes[i])
    [] f.kind = "Not" -> NoEmptyAndOr(f.Node)
    [] OTHER -> TRUE

RECURSIVE Split(_)
Split(s) ==
  IF Index(s, ",") = 0 THEN <<s>>
  ELSE <<SubSeq(s, 1, Index(s, ",") - 1)>> \o Split(SubSeq(s, Index(s, ",") + 1, Len(s)))

\* ParseRDN: strings.Cut at the first "=", both sides trimmed.
ParseRDN(rdn) ==
  LET i == Index(rdn, "=")
      name == TrimSpace(SubSeq(rdn, 1, i - 1))
      val == TrimSpace(SubSeq(rdn, i + 1, Len(rdn)))
  IN IF i = 0 THEN [err |-> "invalid rdn", rdn |-> RDN(<<>>, <<>>)]
     ELSE IF name = <<>> THEN [err |-> "no attribute name in rdn", rdn |-> RDN(<<>>, <<>>)]
     ELSE [err |-> "", rdn |-> RDN(name, val)]

\* The loop of NewDN: the elements from the last to the first.
RECURSIVE NewDNLoop(_, _, _)
NewDNLoop(elems, i, result) ==
  IF i < 1 THEN [err |-> "", dn |-> result]
  ELSE LET r == ParseRDN(elems[i])
       IN IF r.err # "" THEN [err |-> r.err, dn |-> <<>>]
          ELSE NewDNLoop(elems, i - 1, Append(result, r.rdn))

\* NewDN without the case of the empty string.
NewDNNoRoot(dnstr) ==
  LET t == TrimSpace(dnstr)
  IN NewDNLoop(Split(t), Len(Split(t)), <<>>)

\* NewDN
NewDN(dnstr) ==
  LET t == TrimSpace(dnstr)
  IN IF t = <<>> THEN [err |-> "", dn |-> <<>>]
     ELSE NewDNLoop(Split(t), Len(Split(t)), <<>>)

(***************************************************************************)
(* The search handler (server.go).                                         *)
(***************************************************************************)
\* Attr.IsSensitive: the credential attribute, whatever the case of its name.
IsSensitive(a) == ToLower(a.Name) = ToLower(tUserPassword)

\* The attribute names the loop over attrs goes through: the requested ones,
\* or the keys of e.Attrs when none or "*" first is requested.
SearchAttrNames(e, attributes) ==
  IF Len(attributes) > 0 /\ attributes[1] # <<"*">>
  THEN Range(attributes)
  ELSE DOMAIN e.Attrs

\* attrMap without the test of IsSensitive.
SearchAttrsAll(e, attributes, typesOnly) ==
  LET found == {GetAttr(e, n) : n \in {m \in SearchAttrNames(e, attributes) : HasAttr(e, m)}}
  IN [name \in {a.Name : a \in found} |->
        IF typesOnly THEN <<>>
        ELSE (CHOOSE a \in found : a.Name = name).Vals]

\* attrMap of handleSearch: the attributes found and not sensitive, by their
\* canonical name; no values with TypesOnly.
SearchAttrs(e, attributes, typesOnly) ==
  LET found == {GetAttr(e, n) : n \in {m \in SearchAttrNames(e, attributes) : HasAttr(e, m)}}
      shown == {a \in found : ~IsSensitive(a)}
  IN [name \in {a.Name : a \in shown} |->
        IF typesOnly THEN <<>>
        ELSE (CHOOSE a \in shown : a.Name = name).Vals]

\* The loop over nodeIter: an entry response for every node that matches;
\* the write numbered failAt fails and ends the loop (0: none fails).
\* Returns the responses written and whether the loop ran to its end.
RECURSIVE SearchLoop(_, _, _, _, _, _)

\* The loop without the test of f.Match: a response for every node.
SearchLoopNoMatch(h, nodes, f, req, written, failAt) ==
  IF nodes = <<>> THEN [entries |-> written, done |-> TRUE]
  ELSE LET e == h[Head(nodes)].Entry
       IN IF Len(written) + 1 = failAt THEN [entries |-> written, done |-> FALSE]
          ELSE SearchLoop(h, Tail(nodes), f, req,
                          Append(written, [DN |-> DNString(e.DN),
                                           Attrs |-> SearchAttrs(e, req.Attributes, req.TypesOnly)]),
                          failAt)

SearchLoop(h, nodes, f, req, written, failAt) ==
  IF nodes = <<>> THEN [entries |-> written, done |-> TRUE]
  ELSE LET e == h[Head(nodes)].Entry
       IN IF ~Match(f, e) THEN SearchLoop(h, Tail(nodes), f, req, written, failAt)
          ELSE IF Len(written) + 1 = failAt THEN [entries |-> written, done |-> FALSE]
          ELSE SearchLoop(h, Tail(nodes), f, req,
                          Append(written, [DN |-> DNString(e.DN),
                                           Attrs |-> SearchAttrs(e, req.Attributes, req.TypesOnly)]),
                          failAt)

\* handleSearch that parses the filter before it looks at the base DN.
handleSearchFilterFirst(h, req, failAt) ==
  LET baseDN == NewDN(req.BaseDN)
      base == Find(h, Root, baseDN.dn)
      f == Parse(req.Filter)
      nodeIter == CASE req.Scope = "BaseObject" -> Self(h, base)
                    [] req.Scope = "SingleLevel" -> Children(h, base)
                    [] req.Scope = "WholeSubtree" -> All(h, base)
      loop == SearchLoop(h, nodeIter, f.node, req, <<>>, failAt)
  IN IF ~req.isSearch THEN [entries |-> <<>>, code |-> "ResultDefault"]
     ELSE IF f.err # "" THEN [entries |-> <<>>, code |-> "ResultFilterError"]
     ELSE IF baseDN.err # "" THEN [entries |-> <<>>, code |-> "ResultInvalidDNSyntax"]
     ELSE IF base = Nil \/ (IsEmpty(baseDN.dn) /\ req.Scope # "BaseObject")
     THEN [entries |-> <<>>, code |-> "ResultNoSuchObject"]
     ELSE IF req.Scope \notin {"BaseObject", "SingleLevel", "WholeSubtree"}
     THEN [entries |-> <<>>, code |-> "ResultNotSupported"]
     ELSE IF ~loop.done THEN [entries |-> loop.entries, code |-> "ResultDefault"]
     ELSE [entries |-> loop.entries, code |-> "ResultSuccess"]

\* Server.handleSearch: the entry responses written and the code of the done
\* response.  "ResultDefault" is the code NewSearchDoneResponse starts with.
handleSearch(h, req, failAt) ==
  LET baseDN == NewDN(req.BaseDN)
      base == Find(h, Root, baseDN.dn)
      f == Parse(req.Filter)
      nodeIter == CASE req.Scope = "BaseObject" -> Self(h, base)
                    [] req.Scope = "SingleLevel" -> Children(h, base)
                    [] req.Scope = "WholeSubtree" -> All(h, base)
      loop == SearchLoop(h, nodeIter, f.node, req, <<>>, failAt)
  IN IF ~req.isSearch THEN [entries |-> <<>>, code |-> "ResultDefault"]
     ELSE IF baseDN.err # "" THEN [entries |-> <<>>, code |-> "ResultInvalidDNSyntax"]
     ELSE IF base = Nil \/ (IsEmpty(baseDN.dn) /\ req.Scope # "BaseObject")
     THEN [entries |-> <<>>, code |-> "ResultNoSuchObject"]
     ELSE IF f.err # "" THEN [entries |-> <<>>, code |-> "ResultFilterError"]
     ELSE IF req.Scope \notin {"BaseObject", "SingleLevel", "WholeSubtree"}
     THEN [entries |-> <<>>, code |-> "ResultNotSupported"]
     ELSE IF ~loop.done THEN [entries |-> loop.entries, code |-> "ResultDefault"]
     ELSE [entries |-> loop.entries, code |-> "ResultSuccess"]

(***************************************************************************)
(* The server: the directory is loaded, then a request is received and     *)
(* handled.                                                                *)
(***************************************************************************)
\* The lists of entries the directory is loaded from.
Loads ==
  { <<eCom, ePeople, eGroups, eAlice>>,
    <<eAlice, eGroups, eCom>>,
    <<>> }

BaseDNPool ==
  { <<>>,
    <<"d","c","=","a">>,
    <<"o","u","=","p",",","d","c","=","a">>,
    <<" ","O","U"," ","=","p"," ",","," ","D","C","=","a">>,
    <<"u","i","d","=","x",",","o","u","=","p",",","d","c","=","a">>,
    <<"o","u","=","z",",","d","c","=","a">>,
    <<"d","c","=","a",",">> }

ScopePool == {"BaseObject", "SingleLevel", "WholeSubtree", "Children"}

SearchFilterPool ==
  { Render(Leaf(tObjectClass, <<"=">>, <<"*">>)),
    Render(Leaf(tUid, <<"=">>, <<"x">>)),
    Render(Leaf(tUserPassword, <<"=">>, <<"*">>)),
    Render([kind |-> "not", kid |-> Leaf(tUid, <<"=">>, <<"*">>)]),
    Render([kind |-> "and", kids |-> <<>>]),
    <<"(", "u", "i", "d", "=", ")">>,
    <<"u", "i", "d", "=", "x">> }

AttributesPool ==
  { <<>>,
    <<<<"*">>>>,
    <<tUserPassword>>,
    <<tUid, ToLower(tUserPassword)>>,
    <<<<"*">>, tUserPassword>> }

SearchRequests ==
  [isSearch : {TRUE}, BaseDN : BaseDNPool, Scope : ScopePool,
   Filter : SearchFilterPool, Attributes : AttributesPool, TypesOnly : BOOLEAN]

\* A message of another kind routed to the search handler.
NotASearch ==
  [isSearch |-> FALSE, BaseDN |-> <<>>, Scope |-> "BaseObject",
   Filter |-> <<>>, Attributes |-> <<>>, TypesOnly |-> FALSE]

InitServer ==
  /\ dit \in {AddEntries(NewDB, es).dit : es \in Loads}
  /\ call = [op |-> "NewServer"]
  /\ flt = NoFilter

\* The mux hands a search message to the handler.
Receive(req) ==
  /\ call.op = "NewServer"
  /\ call' = [op |-> "request", req |-> req]
  /\ UNCHANGED <<dit, flt>>

\* s.handleSearch(w, r); the write numbered failAt returns an error.
HandleSearch(failAt) ==
  /\ call.op = "request"
  /\ LET r == handleSearch(dit, call.req, failAt)
     IN call' = [op |-> "handleSearch", req |-> call.req, failAt |-> failAt,
                 entries |-> r.entries, code |-> r.code]
  /\ UNCHANGED <<dit, flt>>

NextServer ==
  \/ \E req \in SearchRequests \cup {NotASearch} : Receive(req)
  \/ \E failAt \in {0, 2} : HandleSearch(failAt)

SpecServer == InitServer /\ [][NextServer]_vars

\* C7: no entry response of handleSearch has a sensitive attribute, whatever
\* the entry, the filter, the scope and the attributes asked for.
C7_NoSensitiveAttrs ==
  call.op = "handleSearch" =>
    \A i \in 1..Len(call.entries) :
      \A name \in DOMAIN call.entries[i].Attrs :
        ~IsSensitive(Attr(name, call.entries[i].Attrs[name]))

\* The entry that holds userPassword matched a filter on userPassword and was
\* written for a request that names userPassword.
C7_Witness ==
  /\ call.op = "handleSearch"
  /\ call.req.Filter = Render(Leaf(tUserPassword, <<"=">>, <<"*">>))
  /\ call.req.Attributes = <<tUid, ToLower(tUserPassword)>>
  /\ ~call.req.TypesOnly
  /\ \E i \in 1..Len(call.entries) :
       /\ call.entries[i].DN = DNString(dnAlice)
       /\ DOMAIN call.entries[i].Attrs = {tUid}

(***************************************************************************)
(* Parse on filter texts: flt is the text handed to Parse, kept in its     *)
(* parts (leading text, the filter, trailing text).  The leaves are every  *)
(* combination of a name, an operator and a value, well formed or not.     *)
(***************************************************************************)
NamePool ==
  { <<>>, <<"a">>, tUid, <<"a", "1">>, <<"a", ".", "b">>, <<"A">>,
    <<"1", "a">>, <<".", "a">>, <<"a", "$">>, <<"a", " ">>, <<" ", "a">>,
    <<"a", "<">>, <<"a", ":">>, <<"&", "a">>, <<"!">>, <<"|", "a">> }

OpPool == {<<"=">>, <<"<", "=">>, <<">", "=">>, <<"~", "=">>, <<"-">>, <<>>}

ValuePool == {<<>>, <<"x">>, <<"*">>, <<"x", "=", "y">>, <<"<", "=", "x">>}

LeafPool == {Leaf(n, o, v) : n \in NamePool, o \in OpPool, v \in ValuePool}

LeadPool == {<<>>, <<" ">>, <<"\t", "\n">>}

TrailPool ==
  { <<>>, <<" ">>, <<"X">>, <<" ", "X", " ">>, <<")">>, <<"(">>,
    Render(Leaf(tCn, <<"=">>, <<"*">>)) }

ParseTexts ==
  [kind : {"text"}, lead : LeadPool, body : LeafPool \cup Shapes(MaxNest),
   trail : TrailPool]

\* The text of flt.
TextOf(t) == t.lead \o Render(t.body) \o t.trail

InitParse ==
  /\ dit = NewDB
  /\ call = [op |-> "none"]
  /\ flt \in ParseTexts

\* Parse(filter) on a filter text.
ParseText ==
  /\ call.op = "none"
  /\ LET r == Parse(TextOf(flt))
     IN call' = [op |-> "Parse", err |-> r.err, node |-> r.node]
  /\ UNCHANGED <<dit, flt>>

NextParse == ParseText

SpecParse == InitParse /\ [][NextParse]_vars

(***************************************************************************)
(* Properties of Parse, stated on the text of the filter.                  *)
(***************************************************************************)
\* The text is empty or white space.
Blank(s) == TrimSpace(s) = <<>>

\* The content of a leaf: the text between its parentheses.
Content(l) == l.attr \o l.op \o l.value

\* The filter is a leaf by the grammar: not an and, an or or a not.
IsOpLeaf(s) ==
  /\ s.kind = "leaf"
  /\ Content(s) # <<>> => Content(s)[1] \notin {"&", "|", "!"}

\* The content has one of <=, >=, ~= ending at its first "=".
HasTwoCharOp(c) ==
  /\ Index(c, "=") > 1
  /\ SubSeq(c, Index(c, "=") - 1, Index(c, "=")) \in
       {<<"<", "=">>, <<">", "=">>, <<"~", "=">>}

\* The text before the operator and the text after it.
NameOf(c) ==
  SubSeq(c, 1, Index(c, "=") - (IF HasTwoCharOp(c) THEN 2 ELSE 1))

ValueOf(c) == SubSeq(c, Index(c, "=") + 1, Len(c))

\* A letter, then letters, digits and dots.
ValidName(n) ==
  /\ n # <<>>
  /\ IsLetter(n[1])
  /\ \A i \in 2..Len(n) : n[i] = "." \/ IsLetter(n[i]) \/ IsDigit(n[i])

\* A complete filter of the grammar that the parser implements: leaves
\* name = value, and/or with a child, not.
RECURSIVE WellFormed(_)
WellFormed(s) ==
  CASE s.kind = "leaf" ->
         /\ IsOpLeaf(s)
         /\ Index(Content(s), "=") > 0
         /\ ~HasTwoCharOp(Content(s))
         /\ ValidName(NameOf(Content(s)))
         /\ ValueOf(Content(s)) # <<>>
    [] s.kind \in {"and", "or"} ->
         s.kids # <<>> /\ \A i \in 1..Len(s.kids) : WellFormed(s.kids[i])
    [] s.kind = "not" -> WellFormed(s.kid)

\* The filter text of a FilterNode.
RECURSIVE Unparse(_)
RECURSIVE UnparseAll(_)
Unparse(f) ==
  CASE f.kind = "Presence" -> <<"(">> \o f.Attr \o <<"=", "*", ")">>
    [] f.kind = "Equality" -> <<"(">> \o f.Attr \o <<"=">> \o f.Value \o <<")">>
    [] f.kind = "And" -> <<"(", "&">> \o UnparseAll(f.Nodes) \o <<")">>
    [] f.kind = "Or" -> <<"(", "|">> \o UnparseAll(f.Nodes) \o <<")">>
    [] f.kind = "Not" -> <<"(", "!">> \o Unparse(f.Node) \o <<")">>
    [] OTHER -> <<"?">>

UnparseAll(fs) ==
  IF fs = <<>> THEN <<>> ELSE Unparse(Head(fs)) \o UnparseAll(Tail(fs))

\* C11: when text is left after a complete filter (white space at the end of
\* the input aside), Parse fails with ErrUnexpectedInput and returns no node;
\* when Parse succeeds, the trimmed input is exactly the text of the one
\* filter it returns.
C11_WholeInputConsumed ==
  call.op = "Parse" =>
    /\ (WellFormed(flt.body) /\ ~Blank(flt.trail)) =>
         (call.err = "ErrUnexpectedInput" /\ call.node = NilNode)
    /\ call.err = "" => Unparse(call.node) = TrimSpace(TextOf(flt))

\* A second complete filter follows an and of two filters, after white space
\* at the start of the input.
C11_Witness ==
  /\ call.op = "Parse" /\ call.err = "ErrUnexpectedInput"
  /\ flt.lead = <<"\t", "\n">>
  /\ flt.body.kind = "and" /\ Len(flt.body.kids) = 2
  /\ WellFormed(flt.body)
  /\ flt.trail = Render(Leaf(tCn, <<"=">>, <<"*">>))

\* Every leaf of the node is a Presence or an Equality on a valid name.
RECURSIVE OnlyEqualityOps(_)
OnlyEqualityOps(f) ==
  CASE f.kind \in {"Presence", "Equality"} -> ValidName(f.Attr)
    [] f.kind \in {"And", "Or"} -> \A i \in 1..Len(f.Nodes) : OnlyEqualityOps(f.Nodes[i])
    [] f.kind = "Not" -> OnlyEqualityOps(f.Node)
    [] OTHER -> FALSE

\* C12: on a leaf with a valid name, then <=, >= or ~= ending at the first
\* "=" of the content, then a value, Parse fails with ErrUnimplemented; the
\* leaves of every node Parse returns are Presence and Equality nodes.
C12_TwoCharOpUnimplemented ==
  call.op = "Parse" =>
    /\ ( /\ IsOpLeaf(flt.body)
         /\ HasTwoCharOp(Content(flt.body))
         /\ ValidName(NameOf(Content(flt.body)))
         /\ ValueOf(Content(flt.body)) # <<>> ) =>
         (call.err = "ErrUnimplemented" /\ call.node = NilNode)
    /\ call.err = "" => OnlyEqualityOps(call.node)

\* The leaf (a<=*): the value of a presence test after a two-character
\* operator.
C12_Witness ==
  /\ call.op = "Parse" /\ call.err = "ErrUnimplemented"
  /\ flt.body.kind = "leaf"
  /\ Content(flt.body) = <<"a", "<", "=", "*">>
  /\ Blank(flt.lead) /\ Blank(flt.trail)

\* C13: on a leaf with an "=", the name is the text before the operator at
\* the first "="; Parse fails with ErrEmptyAttrName when it is empty, with
\* ErrInvalidAttrName when it is not a letter followed by letters, digits and
\* dots, and with neither error otherwise; a node returned has that name.
C13_AttrName ==
  (call.op = "Parse" /\ IsOpLeaf(flt.body) /\ Index(Content(flt.body), "=") > 0) =>
    LET name == NameOf(Content(flt.body))
    IN /\ name = <<>> => call.err = "ErrEmptyAttrName"
       /\ (name # <<>> /\ ~ValidName(name)) => call.err = "ErrInvalidAttrName"
       /\ ValidName(name) =>
            /\ call.err \notin {"ErrEmptyAttrName", "ErrInvalidAttrName"}
            /\ call.err = "" => call.node.Attr = name

\* The leaf (1a>=x): a name that starts with a digit, before a two-character
\* operator.
C13_Witness ==
  /\ call.op = "Parse" /\ call.err = "ErrInvalidAttrName"
  /\ flt.body.kind = "leaf"
  /\ Content(flt.body) = <<"1", "a", ">", "=", "x">>

(***************************************************************************)
(* DNs and RDNs as functions of their input.  flt is the input: the text   *)
(* handed to NewDN, kept in its parts (white space, the components between *)
(* the commas, white space), three DNs, or three RDNs.                     *)
(***************************************************************************)
\* The text between two commas: well formed, with white space, without "=",
\* without a name, without a value, with a second "=".
CompPool ==
  { <<"d", "c", "=", "a">>,
    <<" ", "d", "c", " ", "=", " ", "a", " ">>,
    <<"D", "C", "=", "b">>,
    <<"o", "u", "=", "a", " ", "b">>,
    <<"c", "n", "=", "a", "=", " ", "b">>,
    <<"d", "c", "=">>,
    <<"d", "c">>,
    <<"=", "a">>,
    <<" ", "=", "a">>,
    <<>>,
    <<" ">> }

DNSpacePool == {<<>>, <<" ">>, <<"\t", "\n">>}

DNTexts ==
  [kind : {"text"}, lead : DNSpacePool, comps : SeqsUpTo(CompPool, MaxComps),
   trail : DNSpacePool]

\* strings.Join(elems, ",")
RECURSIVE JoinComma(_)
JoinComma(elems) ==
  IF elems = <<>> THEN <<>>
  ELSE IF Len(elems) = 1 THEN elems[1]
  ELSE elems[1] \o <<",">> \o JoinComma(Tail(elems))

DNTextOf(t) == t.lead \o JoinComma(t.comps) \o t.trail

\* DNs built by NewDN and DNs built as struct literals.
DNValPool ==
  { dnRoot, dnCom, dnComA, dnPeople, dnPeopleUC, dnGroups, dnAlice,
    <<RDN(<<"D", "C">>, <<"a">>)>> }

DNTriples == [kind : {"dns"}, a : DNValPool, b : DNValPool, c : DNValPool]

\* RDNs whose names differ in case only, differ, or are in one orbit of
\* SimpleFold; values that differ in case and values that are prefixes.
RDNPool ==
  { RDN(n, v) :
      n \in {<<"d", "c">>, <<"D", "C">>, <<"D", "c">>, <<"o", "u">>, <<"d">>,
             <<"s">>, <<"S">>, <<LongS>>},
      v \in {<<"a">>, <<"A">>, <<"a", "b">>} }

RDNTriples == [kind : {"rdns"}, a : RDNPool, b : RDNPool, c : RDNPool]

InitDN ==
  /\ dit = NewDB
  /\ call = [op |-> "none"]
  /\ flt \in DNTexts \cup DNTriples \cup RDNTriples

\* NewDN(dnstr), then dn.String() and NewDN on it.
NewDNCall ==
  /\ call.op = "none" /\ flt.kind = "text"
  /\ LET r == NewDN(DNTextOf(flt))
     IN call' = [op |-> "NewDN", err |-> r.err, dn |-> r.dn,
                 str |-> DNString(r.dn), again |-> NewDN(DNString(r.dn))]
  /\ UNCHANGED <<dit, flt>>

\* dn.IsAncestor(sub) on the pairs of three DNs and on the root DN.
IsAncestorCall ==
  /\ call.op = "none" /\ flt.kind = "dns"
  /\ call' = [op |-> "IsAncestor",
              aa |-> IsAncestor(flt.a, flt.a),
              ab |-> IsAncestor(flt.a, flt.b),
              bc |-> IsAncestor(flt.b, flt.c),
              ac |-> IsAncestor(flt.a, flt.c),
              rootc |-> IsAncestor(dnRoot, flt.c)]
  /\ UNCHANGED <<dit, flt>>

\* rdn.Equal(rhs) and rdn.Compare(rhs) on the pairs of three RDNs.
RDNCompareCall ==
  /\ call.op = "none" /\ flt.kind = "rdns"
  /\ call' = [op |-> "Compare",
              eq |-> RDNEqual(flt.a, flt.b),
              ab |-> RDNCompare(flt.a, flt.b),
              ba |-> RDNCompare(flt.b, flt.a),
              bc |-> RDNCompare(flt.b, flt.c),
              ac |-> RDNCompare(flt.a, flt.c)]
  /\ UNCHANGED <<dit, flt>>

NextDN == NewDNCall \/ IsAncestorCall \/ RDNCompareCall

SpecDN == InitDN /\ [][NextDN]_vars

(***************************************************************************)
(* Properties of DNs and RDNs.                                             *)
(***************************************************************************)
\* A component NewDN accepts: an "=" with a name before it.
CompOK(c) == Index(c, "=") > 0 /\ ~Blank(SubSeq(c, 1, Index(c, "=") - 1))

\* The name and the value of a component, without the white space around
\* them.
CompName(c) == TrimSpace(SubSeq(c, 1, Index(c, "=") - 1))

CompValue(c) == TrimSpace(SubSeq(c, Index(c, "=") + 1, Len(c)))

\* The text with the white space around each "," and around the first "=" of
\* each component removed.
Normalised(t) ==
  IF Blank(DNTextOf(t)) THEN <<>>
  ELSE JoinComma([i \in 1..Len(t.comps) |->
                    CompName(t.comps[i]) \o <<"=">> \o CompValue(t.comps[i])])

\* C14: for a text s that NewDN accepts, NewDN of the rendered DN succeeds
\* and is Equal to NewDN(s), and the rendered DN is s without the white space
\* around the commas and around the first "=" of each component.
C14_DNRoundTrip ==
  (call.op = "NewDN" /\ call.err = "") =>
    /\ call.again.err = ""
    /\ DNEqual(call.again.dn, call.dn)
    /\ call.str = Normalised(flt)

\* Two components with white space around the comma and the "=", one with a
\* second "=" in its value.
C14_Witness ==
  /\ call.op = "NewDN" /\ call.err = ""
  /\ flt.lead = <<" ">>
  /\ flt.comps = << <<"c", "n", "=", "a", "=", " ", "b">>,
                    <<" ", "d", "c", " ", "=", " ", "a", " ">> >>
  /\ call.str = <<"c", "n", "=", "a", "=", " ", "b", ",", "d", "c", "=", "a">>

\* C15: IsAncestor is reflexive and transitive, and the root DN is an
\* ancestor of every DN.
C15_IsAncestorOrder ==
  call.op = "IsAncestor" =>
    /\ call.aa
    /\ (call.ab /\ call.bc) => call.ac
    /\ call.rootc

\* A chain of three different DNs, the middle one with its names in upper
\* case.
C15_Witness ==
  /\ call.op = "IsAncestor"
  /\ flt.a = dnCom /\ flt.b = dnPeopleUC /\ flt.c = dnAlice
  /\ call.ab /\ call.bc /\ call.ac

\* C16: NewDN returns the root DN without error for the empty text and for
\* white space; for another text it returns an error and no DN when a
\* component has no "=" or no name before it, and the components from the
\* last to the first otherwise.
C16_NewDN ==
  call.op = "NewDN" =>
    LET n == Len(flt.comps)
    IN IF Blank(DNTextOf(flt)) THEN call.err = "" /\ call.dn = <<>>
       ELSE IF \E i \in 1..n : ~CompOK(flt.comps[i]) THEN call.err # "" /\ call.dn = <<>>
       ELSE /\ call.err = ""
            /\ Len(call.dn) = n
            /\ \A i \in 1..n :
                 call.dn[i] = RDN(CompName(flt.comps[n + 1 - i]),
                                  CompValue(flt.comps[n + 1 - i]))

\* White space only: the root DN.
C16_Witness ==
  /\ call.op = "NewDN" /\ call.err = "" /\ call.dn = <<>>
  /\ flt.lead = <<"\t", "\n">> /\ flt.comps = <<>> /\ flt.trail = <<" ">>

\* C17: Equal holds iff the names are equal ignoring case and the values are
\* equal; Compare is 0 iff Equal; Compare is antisymmetric and transitive and
\* orders by lower-cased name, then by value.
C17_RDNOrder ==
  call.op = "Compare" =>
    /\ call.eq = (EqualFold(flt.a.Name, flt.b.Name) /\ flt.a.Value = flt.b.Value)
    /\ (call.ab = 0) = call.eq
    /\ call.ab = -call.ba
    /\ (call.ab <= 0 /\ call.bc <= 0) => call.ac <= 0
    /\ (call.ab < 0) =
         \/ StringLess(ToLower(flt.a.Name), ToLower(flt.b.Name))
         \/ /\ ToLower(flt.a.Name) = ToLower(flt.b.Name)
            /\ StringLess(flt.a.Value, flt.b.Value)

(***************************************************************************)
(* NewEntryFromMap (db.go).  A JSON value is a string, a float64, a bool,  *)
(* null, an object, or an array of those; attrs is a function from the     *)
(* keys of the JSON object to their values.  The loop ranges over a Go map, *)
(* whose order is not defined: order is the order the keys came in.        *)
(***************************************************************************)
JString(v) == [t |-> "string", v |-> v]

JNumber(n) == [t |-> "float64", v |-> n]

JBool(b) == [t |-> "bool", v |-> b]

JNull == [t |-> "null"]

JObject == [t |-> "object"]

JArray(vs) == [t |-> "array", v |-> vs]

\* strconv.FormatFloat(v, 'f', -1, 64) on a natural number.
RECURSIVE FormatFloat(_)
FormatFloat(n) ==
  IF n < 10 THEN <<DigitRunes[n + 1]>>
  ELSE FormatFloat(n \div 10) \o <<DigitRunes[(n % 10) + 1]>>

\* strconv.FormatBool
FormatBool(b) == IF b THEN <<"t", "r", "u", "e">> ELSE <<"f", "a", "l", "s", "e">>

NilEntry == [DN |-> <<>>, Attrs |-> <<>>, nil |-> TRUE]

EntryErr(err) == [err |-> err, entry |-> NilEntry]

\* val.([]any), or []any{val} when val is not an array.
AttrVal(val) == IF val.t = "array" THEN val.v ELSE <<val>>

\* The loop over the values of one attribute: attr.Vals with the strings of
\* the values, or the error at the first value of another type.
RECURSIVE AttrVals(_, _)
AttrVals(attrVal, vals) ==
  IF attrVal = <<>> THEN [err |-> "", vals |-> vals]
  ELSE LET aval == Head(attrVal)
       IN CASE aval.t = "string" -> AttrVals(Tail(attrVal), Append(vals, aval.v))
            [] aval.t = "float64" -> AttrVals(Tail(attrVal), Append(vals, FormatFloat(aval.v)))
            [] aval.t = "bool" -> AttrVals(Tail(attrVal), Append(vals, FormatBool(aval.v)))
            [] OTHER -> [err |-> "invalid type for attribute", vals |-> <<>>]

\* The validation after the loop.
EntryValidate(e) ==
  IF IsEmpty(e.DN) THEN EntryErr("missing DN")
  ELSE IF ~HasAttr(e, tObjectClass) THEN EntryErr("missing objectClass")
  ELSE [err |-> "", entry |-> e]

\* The loop over attrs, in the order the map yields its keys.
RECURSIVE EntryLoop(_, _, _)
EntryLoop(attrs, order, e) ==
  IF order = <<>> THEN EntryValidate(e)
  ELSE LET attrName == Head(order)
           attrVal == AttrVal(attrs[attrName])
       IN IF ToLower(attrName) = <<"d", "n">>
          THEN IF Len(attrVal) > 1 THEN EntryErr("dn cannot have multiple values")
               ELSE IF Len(attrVal) = 0 THEN EntryErr("panic: index out of range")
               ELSE IF attrVal[1].t # "string" \/ TrimSpace(attrVal[1].v) = <<>>
               THEN EntryErr("dn must be a non-empty string")
               ELSE IF ~IsEmpty(e.DN) THEN EntryErr("dn already set")
               ELSE IF NewDN(attrVal[1].v).err # "" THEN EntryErr(NewDN(attrVal[1].v).err)
               ELSE IF IsEmpty(NewDN(attrVal[1].v).dn) THEN EntryErr("dn must not be empty")
               ELSE EntryLoop(attrs, Tail(order), [e EXCEPT !.DN = NewDN(attrVal[1].v).dn])
          ELSE IF HasAttr(e, attrName) THEN EntryErr("duplicate attribute")
          ELSE LET vs == AttrVals(attrVal, <<>>)
               IN IF vs.err # "" THEN EntryErr(vs.err)
                  ELSE EntryLoop(attrs, Tail(order), AddAttr(e, Attr(attrName, vs.vals)))

\* NewEntryFromMap
NewEntryFromMap(attrs, order) ==
  EntryLoop(attrs, order, [DN |-> <<>>, Attrs |-> <<>>])

(***************************************************************************)
(* Entries built from JSON objects.  flt is the JSON object; the entry     *)
(* built from it is then added to with AddAttr and read with GetAttr.      *)
(***************************************************************************)
tDn == <<"d", "n">>

tDN == <<"D", "N">>

tOBJECTCLASS == <<"O", "B", "J", "E", "C", "T", "C", "L", "A", "S", "S">>

tMail == <<"M", "a", "i", "l">>

\* The keys of the JSON objects and the values each of them takes.
KeyVals ==
  (tDn :> { JString(<<"d", "c", "=", "a">>),
            JString(<<" ", "u", "i", "d", " ", "=", " ", "x", " ", ",", "d", "c", "=", "a">>),
            JString(<<" ">>),
            JString(<<"d", "c">>),
            JArray(<<JString(<<"d", "c", "=", "a">>)>>),
            JArray(<<>>),
            JArray(<<JString(<<"d", "c", "=", "a">>), JString(<<"d", "c", "=", "b">>)>>),
            JNumber(7) })
  @@ (tDN :> {JString(<<"d", "c", "=", "b">>)})
  @@ (tObjectClass :> { JString(tTop),
                        JArray(<<JString(tTop), JString(tPerson)>>),
                        JArray(<<>>),
                        JBool(TRUE),
                        JNull })
  @@ (tOBJECTCLASS :> {JString(tTop)})
  @@ (tUid :> { JString(<<"x">>),
                JArray(<<JString(<<"x">>), JNumber(12)>>),
                JArray(<<JBool(FALSE), JObject>>),
                JArray(<<>>) })
  @@ (tUID :> {JString(<<"X">>)})

\* The JSON objects: at most MaxKeys of the keys, each with one of its values.
JSONMaps ==
  UNION { {f \in [K -> UNION {KeyVals[k] : k \in K}] : \A k \in K : f[k] \in KeyVals[k]} :
            K \in {L \in SUBSET DOMAIN KeyVals : Cardinality(L) <= MaxKeys} }

\* The orders a range over a map with keys K can take.
Orders(K) ==
  {o \in [1..Cardinality(K) -> K] : \A i, j \in 1..Cardinality(K) : o[i] = o[j] => i = j}

\* The attributes added with AddAttr: a new one, one that replaces uid, one
\* without values.
AddAttrPool ==
  { Attr(tCn, <<<<"y">>>>), Attr(tUID, <<<<"z">>>>), Attr(tMail, <<>>) }

\* The names looked up with GetAttr.
GetAttrPool ==
  { tObjectClass, ToLower(tObjectClass), tOBJECTCLASS, tUid, tUID, <<"U", "i", "d">>,
    tCn, <<"C", "N">>, tMail, ToLower(tMail), <<"s", "n">> }

InitEntry ==
  /\ dit = NewDB
  /\ call = [op |-> "none"]
  /\ flt \in [kind : {"map"}, attrs : JSONMaps]

\* NewEntryFromMap(attrs), the range over attrs taking the order given.
NewEntryFromMapCall(order) ==
  /\ call.op = "none"
  /\ LET r == NewEntryFromMap(flt.attrs, order)
     IN call' = [op |-> "NewEntryFromMap", order |-> order, err |-> r.err, entry |-> r.entry]
  /\ UNCHANGED <<dit, flt>>

\* e.AddAttr(attr) on the entry built.
AddAttrCall(attr) ==
  /\ call.op = "NewEntryFromMap" /\ call.err = ""
  /\ call' = [op |-> "AddAttr", attr |-> attr, entry |-> AddAttr(call.entry, attr)]
  /\ UNCHANGED <<dit, flt>>

\* e.GetAttr(name) on the entry built, or on it after AddAttr; added is the
\* attribute AddAttr added (without a name when there was no AddAttr).
GetAttrCall(name) ==
  /\ \/ call.op = "NewEntryFromMap" /\ call.err = ""
     \/ call.op = "AddAttr"
  /\ call' = [op |-> "GetAttr", name |-> name, entry |-> call.entry,
              added |-> IF call.op = "AddAttr" THEN call.attr ELSE Attr(<<>>, <<>>),
              ok |-> HasAttr(call.entry, name),
              attr |-> IF HasAttr(call.entry, name) THEN GetAttr(call.entry, name)
                       ELSE Attr(<<>>, <<>>)]
  /\ UNCHANGED <<dit, flt>>

NextEntry ==
  \/ \E order \in Orders(DOMAIN flt.attrs) : NewEntryFromMapCall(order)
  \/ \E attr \in AddAttrPool : AddAttrCall(attr)
  \/ \E name \in GetAttrPool : GetAttrCall(name)

SpecEntry == InitEntry /\ [][NextEntry]_vars

(***************************************************************************)
(* Properties of entries.                                                  *)
(***************************************************************************)
\* C18: an entry NewEntryFromMap returns without error has a DN that is not
\* empty and an objectClass attribute with at least one value.
C18_EntryInvariant ==
  (call.op = "NewEntryFromMap" /\ call.err = "") =>
    /\ call.entry.DN # <<>>
    /\ \E k \in DOMAIN call.entry.Attrs :
         /\ EqualFold(call.entry.Attrs[k].Name, tObjectClass)
         /\ Len(call.entry.Attrs[k].Vals) >= 1

\* Two names that differ at most in the case of their letters.
CaseVariant(v, n) ==
  /\ Len(v) = Len(n)
  /\ \A i \in 1..Len(n) :
       \/ v[i] = n[i]
       \/ \E j \in 1..Len(UpperRunes) : {v[i], n[i]} = {UpperRunes[j], LowerRunes[j]}

\* Every value of the key is a string, a number or a bool.
ValuesOK(val) ==
  LET elems == IF val.t = "array" THEN val.v ELSE <<val>>
  IN \A i \in 1..Len(elems) : elems[i].t \in {"string", "float64", "bool"}

\* C19: GetAttr finds an attribute of the entry built by NewEntryFromMap, and
\* one added with AddAttr, under every case variant of its name, and returns
\* it with the name as supplied; NewEntryFromMap rejects two keys that differ
\* only in case, as a duplicate attribute when they are the first it meets
\* and the values of the first are valid.
C19_CaseInsensitiveAttrs ==
  /\ call.op = "GetAttr" =>
       /\ \A k \in DOMAIN flt.attrs :
            ( /\ ~CaseVariant(k, tDn)
              /\ ~CaseVariant(k, call.added.Name)
              /\ CaseVariant(call.name, k) ) =>
            (call.ok /\ call.attr.Name = k)
       /\ (call.added.Name # <<>> /\ CaseVariant(call.name, call.added.Name)) =>
            (call.ok /\ call.attr = call.added)
  /\ call.op = "NewEntryFromMap" =>
       \A k1, k2 \in DOMAIN flt.attrs :
         (k1 # k2 /\ ~CaseVariant(k1, tDn) /\ CaseVariant(k1, k2)) =>
           /\ call.err # "" /\ call.entry = NilEntry
           /\ ({call.order[1], call.order[2]} = {k1, k2} /\ ValuesOK(flt.attrs[call.order[1]])) =>
                call.err = "duplicate attribute"

\* objectClass is found under its name in upper case and returned under the
\* name of the JSON key, after AddAttr replaced uid by UID.
C19_Witness ==
  /\ call.op = "GetAttr" /\ call.ok
  /\ call.name = tOBJECTCLASS
  /\ call.attr.Name = tObjectClass
  /\ tUid \in DOMAIN flt.attrs
  /\ call.added.Name = tUID

(***************************************************************************)
(* The root entry.                                                         *)
(***************************************************************************)
\* C20: the root entry has the empty DN and the attribute objectClass with
\* the value top under the lower-cased name, GetAttr("objectClass") returns
\* it, and the nodes parsed from (objectClass=*) and (objectClass=top) match
\* the root entry.
C20_RootEntry ==
  LET e == dit[Root].Entry
  IN /\ e.DN = <<>>
     /\ ToLower(tObjectClass) \in DOMAIN e.Attrs
     /\ HasAttr(e, tObjectClass)
     /\ GetAttr(e, tObjectClass) = Attr(tObjectClass, <<tTop>>)
     /\ ( /\ call.op = "Match" /\ call.parsed /\ call.entry = e
          /\ flt \in {Leaf(tObjectClass, <<"=">>, <<"*">>), Leaf(tObjectClass, <<"=">>, tTop)} )
        => call.ret

(***************************************************************************)
(* The credential verifier (Entry.Authenticate).  A stored value is the    *)
(* text {SCHEME}base64(digest || salt).  Decoded bytes are a sequence of   *)
(* runes; the decoder and the digests are scaled down: a base64 rune       *)
(* decodes to one byte, and the digest of a scheme is 2, 3 or 4 bytes long *)
(* in place of 20, 32 and 64.                                              *)
(***************************************************************************)
tPosixAccount == <<"p", "o", "s", "i", "x", "A", "c", "c", "o", "u", "n", "t">>

tShadowAccount == <<"s", "h", "a", "d", "o", "w", "A", "c", "c", "o", "u", "n", "t">>

tPosixGroup == <<"p", "o", "s", "i", "x", "G", "r", "o", "u", "p">>

\* The object classes of the entries that may authenticate.
AuthClasses == {tPosixAccount, tShadowAccount, tPosixGroup}

tSSHA == <<"S", "S", "H", "A">>

tSSHA256 == <<"S", "S", "H", "A", "2", "5", "6">>

tSSHA512 == <<"S", "S", "H", "A", "5", "1", "2">>

Schemes == {tSSHA, tSSHA256, tSSHA512}

\* The number of bytes of the digest of a scheme.
DigestSize(scheme) ==
  CASE scheme = tSSHA -> 2
    [] scheme = tSSHA256 -> 3
    [] scheme = tSSHA512 -> 4

\* The digest of a scheme over data: its last bytes after a filling, so that
\* it depends on the salt and on the end of the secret.
Digest(scheme, data) ==
  LET padded == <<"0", "0", "0", "0">> \o data
  IN SubSeq(padded, Len(padded) - DigestSize(scheme) + 1, Len(padded))

\* Base64: the text without its "=" padding is made of runes of the alphabet.
RECURSIVE StripPadding(_)
StripPadding(text) ==
  IF text # <<>> /\ text[Len(text)] = "=" THEN StripPadding(SubSeq(text, 1, Len(text) - 1))
  ELSE text

Base64Valid(text) ==
  \A i \in 1..Len(StripPadding(text)) :
    LET r == StripPadding(text)[i]
    IN IsLetter(r) \/ IsDigit(r) \/ r \in {"+", "/"}

Base64Decode(text) == StripPadding(text)

Base64Encode(bytes) == bytes \o <<"=">>

\* What one stored value gives against the secret: "skip" without a {scheme}
\* wrapper or with a scheme that is not known, a fatal error, "match" or
\* "nomatch".
Examine(val, secret) ==
  LET close == Index(val, "}")
      scheme == SubSeq(val, 2, close - 1)
      text == SubSeq(val, close + 1, Len(val))
      bytes == Base64Decode(text)
      size == DigestSize(scheme)
  IN IF val = <<>> \/ val[1] # "{" \/ close = 0 THEN "skip"
     ELSE IF scheme \notin Schemes THEN "skip"
     ELSE IF ~Base64Valid(text) THEN "ErrMalformedBase64"
     ELSE IF Len(bytes) < size THEN "ErrHashtextTooShort"
     ELSE IF Len(bytes) = size THEN "ErrMissingSalt"
     ELSE IF Digest(scheme, secret \o SubSeq(bytes, size + 1, Len(bytes))) = SubSeq(bytes, 1, size)
     THEN "match"
     ELSE "nomatch"

\* The loop over the values that gives up at the first value it skips.
RECURSIVE AuthLoopNoSkip(_, _)
AuthLoopNoSkip(vals, secret) ==
  IF vals = <<>> THEN "ErrAuthenticationFailed"
  ELSE LET x == Examine(Head(vals), secret)
       IN IF x = "match" THEN ""
          ELSE IF x = "nomatch" THEN AuthLoopNoSkip(Tail(vals), secret)
          ELSE IF x = "skip" THEN "ErrAuthenticationFailed"
          ELSE x

\* The loop over the values that takes a fatal error for a value that does
\* not match.
RECURSIVE AuthLoopNoAbort(_, _)
AuthLoopNoAbort(vals, secret) ==
  IF vals = <<>> THEN "ErrAuthenticationFailed"
  ELSE IF Examine(Head(vals), secret) = "match" THEN ""
  ELSE AuthLoopNoAbort(Tail(vals), secret)

\* The loop over the stored values, in order: nil at the first match, the
\* error of the first fatal value, ErrAuthenticationFailed at the end.
RECURSIVE AuthLoop(_, _)
AuthLoop(vals, secret) ==
  IF vals = <<>> THEN "ErrAuthenticationFailed"
  ELSE LET x == Examine(Head(vals), secret)
       IN IF x = "match" THEN ""
          ELSE IF x \in {"skip", "nomatch"} THEN AuthLoop(Tail(vals), secret)
          ELSE x

\* Authenticate without the test of the object class.
AuthenticateAnyClass(e, secret) ==
  IF ~HasAttr(e, tUserPassword) THEN "ErrAuthenticationFailed"
  ELSE AuthLoop(GetAttr(e, tUserPassword).Vals, secret)

\* Entry.Authenticate: the error, "" for nil.
Authenticate(e, secret) ==
  IF ~HasAttr(e, tObjectClass)
     \/ \A i \in 1..Len(GetAttr(e, tObjectClass).Vals) :
          GetAttr(e, tObjectClass).Vals[i] \notin AuthClasses
  THEN "ErrInvalidEntryForAuth"
  ELSE IF ~HasAttr(e, tUserPassword) THEN "ErrAuthenticationFailed"
  ELSE AuthLoop(GetAttr(e, tUserPassword).Vals, secret)

(***************************************************************************)
(* Authentication as a function of the entry and the secret.  flt is the   *)
(* input: the object classes of the entry, its userPassword values (stored *)
(* is false for an entry without the attribute) and the secret presented.  *)
(***************************************************************************)
tPw == <<"p", "w">>

tPx == <<"p", "x">>

tSalt == <<"s">>

\* The stored value of a secret under a scheme and a salt.
Cred(scheme, secret, salt) ==
  <<"{">> \o scheme \o <<"}">> \o Base64Encode(Digest(scheme, secret \o salt) \o salt)

\* Stored values: of the secret pw under two schemes, of another secret, with
\* a scheme that is not known, without a wrapper, with half a wrapper, not
\* base64, too short, without salt.
CredPool ==
  { Cred(tSSHA, tPw, tSalt),
    Cred(tSSHA256, tPw, tSalt),
    Cred(tSSHA, tPx, tSalt),
    <<"{", "M", "D", "5", "}">> \o Base64Encode(Digest(tSSHA, tPw \o tSalt) \o tSalt),
    <<"{", "M", "D", "5", "}", "#", "$">>,
    Base64Encode(Digest(tSSHA, tPw \o tSalt) \o tSalt),
    tSSHA \o <<"}">> \o Base64Encode(Digest(tSSHA, tPw \o tSalt) \o tSalt),
    <<"{">> \o tSSHA \o Base64Encode(Digest(tSSHA, tPw \o tSalt) \o tSalt),
    <<"{">> \o tSSHA \o <<"}", "#", "$">>,
    <<"{">> \o tSSHA \o <<"}", "a", "=">>,
    <<"{">> \o tSSHA \o <<"}">> \o Base64Encode(Digest(tSSHA, tPw)) }

ClassPool ==
  { <<tPerson>>, <<tTop, tPerson>>, <<tPosixAccount>>, <<tTop, tShadowAccount>>,
    <<tPosixGroup>>, <<>> }

AuthInputs ==
  [kind : {"auth"}, classes : ClassPool, stored : {TRUE},
   creds : SeqsUpTo(CredPool, MaxCreds), secret : {tPw, tPx}]
  \cup [kind : {"auth"}, classes : ClassPool, stored : {FALSE},
        creds : {<<>>}, secret : {tPw, tPx}]

\* The entry of an input.
AuthEntry(t) ==
  MkEntry(dnAlice,
          <<Attr(tObjectClass, t.classes)>>
          \o (IF t.stored THEN <<Attr(tUserPassword, t.creds)>> ELSE <<>>))

InitAuth ==
  /\ dit = NewDB
  /\ call = [op |-> "none"]
  /\ flt \in AuthInputs

\* e.Authenticate(password)
AuthenticateCall ==
  /\ call.op = "none"
  /\ call' = [op |-> "Authenticate", err |-> Authenticate(AuthEntry(flt), flt.secret)]
  /\ UNCHANGED <<dit, flt>>

NextAuth == AuthenticateCall

SpecAuth == InitAuth /\ [][NextAuth]_vars

(***************************************************************************)
(* Properties of Authenticate.                                             *)
(***************************************************************************)
\* One of the object classes is an account class.
Eligible(classes) == \E i \in 1..Len(classes) : classes[i] \in AuthClasses

FatalErrors == {"ErrMalformedBase64", "ErrHashtextTooShort", "ErrMissingSalt"}

\* C21: on an entry none of whose object classes is an account class,
\* Authenticate fails with ErrInvalidEntryForAuth whatever the secret and the
\* stored values, matching or malformed.
C21_NotEligible ==
  (call.op = "Authenticate" /\ ~Eligible(flt.classes)) =>
    call.err = "ErrInvalidEntryForAuth"

\* A person entry with a value that is not base64 and a value of the secret.
C21_Witness ==
  /\ call.op = "Authenticate" /\ call.err = "ErrInvalidEntryForAuth"
  /\ flt.classes = <<tTop, tPerson>>
  /\ flt.creds = << <<"{">> \o tSSHA \o <<"}", "#", "$">>, Cred(tSSHA, tPw, tSalt) >>
  /\ flt.secret = tPw

\* C22: on an eligible entry none of whose values is fatal, Authenticate
\* succeeds iff a value matches the secret, and fails with
\* ErrAuthenticationFailed otherwise; values that are skipped do not end it.
C22_AnyValueMatches ==
  ( /\ call.op = "Authenticate"
    /\ Eligible(flt.classes)
    /\ \A i \in 1..Len(flt.creds) : Examine(flt.creds[i], flt.secret) \notin FatalErrors ) =>
    /\ (call.err = "") = (\E i \in 1..Len(flt.creds) : Examine(flt.creds[i], flt.secret) = "match")
    /\ call.err \in {"", "ErrAuthenticationFailed"}

\* A value with a scheme that is not known, then the value of the secret
\* under SSHA256.
C22_Witness ==
  /\ call.op = "Authenticate" /\ call.err = ""
  /\ flt.classes = <<tTop, tShadowAccount>>
  /\ Len(flt.creds) = 2
  /\ Examine(flt.creds[1], flt.secret) = "skip"
  /\ flt.creds[2] = Cred(tSSHA256, tPw, tSalt)

\* C23: on an eligible entry, the first fatal value, when no value before it
\* matches, ends Authenticate with its error, whatever the values after it.
C23_FatalAborts ==
  (call.op = "Authenticate" /\ Eligible(flt.classes)) =>
    \A i \in 1..Len(flt.creds) :
      ( /\ Examine(flt.creds[i], flt.secret) \in FatalErrors
        /\ \A j \in 1..(i - 1) : Examine(flt.creds[j], flt.secret) \in {"skip", "nomatch"} ) =>
      call.err = Examine(flt.creds[i], flt.secret)

\* A value without salt, then the value of the secret.
C23_Witness ==
  /\ call.op = "Authenticate" /\ call.err = "ErrMissingSalt"
  /\ flt.classes = <<tPosixAccount>>
  /\ Len(flt.creds) = 2
  /\ flt.creds[2] = Cred(tSSHA, tPw, tSalt)
  /\ flt.secret = tPw

(***************************************************************************)
(* Properties of the rendering of the tree (under Spec).                   *)
(***************************************************************************)
\* The node whose children slice holds n.
ParentOf(h, n) == CHOOSE p \in 1..Len(h) : n \in Range(h[p].children)

\* The number of steps from the root down to n.
RECURSIVE DepthOf(_, _)
DepthOf(h, n) == IF n = Root THEN 0 ELSE 1 + DepthOf(h, ParentOf(h, n))

\* The line of a node other than the root: two spaces for each level below
\* the first, the RDNs the node has after those of its parent, leaf first.
LineOf(h, n) ==
  LET dn == h[n].Entry.DN
      pdn == h[ParentOf(h, n)].Entry.DN
  IN Pad(2 * (DepthOf(h, n) - 1)) \o DNString(SubSeq(dn, Len(pdn) + 1, Len(dn))) \o <<"\n">>

RECURSIVE LinesOf(_, _)
LinesOf(h, ns) == IF ns = <<>> THEN <<>> ELSE LineOf(h, Head(ns)) \o LinesOf(h, Tail(ns))

\* C24: String gives one line for every node but the root, in the pre-order
\* of the tree with children in slice order; the line of a node at depth d
\* is 2*(d-1) spaces and the tail of its DN after its parent's, leaf first;
\* the children of a node are in the order they were inserted.
C24_String ==
  call.op = "String" =>
    /\ call.ret = LinesOf(dit, Tail(walk(dit, Root)))
    /\ Cardinality({i \in 1..Len(call.ret) : call.ret[i] = "\n"}) = Len(dit) - 1
    /\ \A n \in 1..Len(dit) : \A i, j \in 1..Len(dit[n].children) :
         i < j => dit[n].children[i] < dit[n].children[j]

\* The text of a tree three levels deep, of entries inserted after their
\* ancestors: dc=a, ou=p two columns in, uid=x four columns in.
C24_Witness ==
  /\ call.op = "String"
  /\ Len(dit) = 4
  /\ dit[2].Entry = eCom /\ dit[3].Entry = ePeople /\ dit[4].Entry = eAlice
  /\ call.ret = <<"d","c","=","a","\n",
                  " "," ","o","u","=","p","\n",
                  " "," "," "," ","u","i","d","=","x","\n">>

(***************************************************************************)
(* The bind handler (server.go).                                           *)
(***************************************************************************)
\* handleBind that takes a user name without a password for a bind.
handleBindNoPassword(h, req) ==
  LET bindDN == NewDN(req.UserName)
      node == Find(h, Root, bindDN.dn)
  IN IF ~req.isBind THEN "ResultInvalidCredentials"
     ELSE IF req.Password = <<>> THEN "ResultSuccess"
     ELSE IF req.UserName = <<>> THEN "ResultInvalidCredentials"
     ELSE IF bindDN.err # "" THEN "ResultInvalidCredentials"
     ELSE IF node = Nil THEN "ResultInvalidCredentials"
     ELSE IF Authenticate(h[node].Entry, req.Password) # ""
     THEN "ResultInvalidCredentials"
     ELSE "ResultSuccess"

\* Server.handleBind: the code of the bind response written on return.
handleBind(h, req) ==
  LET bindDN == NewDN(req.UserName)
      node == Find(h, Root, bindDN.dn)
  IN IF ~req.isBind THEN "ResultInvalidCredentials"
     ELSE IF req.UserName = <<>> /\ req.Password = <<>> THEN "ResultSuccess"
     ELSE IF req.UserName # <<>> /\ req.Password # <<>>
     THEN IF bindDN.err # "" THEN "ResultInvalidCredentials"
          ELSE IF node = Nil THEN "ResultInvalidCredentials"
          ELSE IF Authenticate(h[node].Entry, req.Password) # ""
          THEN "ResultInvalidCredentials"
          ELSE "ResultSuccess"
     ELSE "ResultInvalidCredentials"

\* An account and a group with stored values of the secret pw.
dnBob ==
  <<RDN(<<"d","c">>, <<"a">>), RDN(<<"o","u">>, <<"p">>), RDN(tUid, <<"y">>)>>

eBob ==
  MkEntry(dnBob, <<Attr(tObjectClass, <<tTop, tPosixAccount>>),
                   Attr(tUid, <<<<"y">>>>),
                   Attr(tUserPassword, << <<"{", "M", "D", "5", "}", "#", "$">>,
                                          Cred(tSSHA256, tPw, tSalt) >>)>>)

eStaff ==
  MkEntry(dnGroups, <<Attr(tObjectClass, <<tPosixGroup>>),
                      Attr(tUserPassword, << <<"{">> \o tSSHA \o <<"}", "#", "$">>,
                                             Cred(tSSHA, tPw, tSalt) >>)>>)

BindLoads ==
  { <<eCom, ePeople, eStaff, eAlice, eBob>>,
    <<eBob, eAlice, eCom>>,
    <<eCom, ePeople, eAlice>>,
    <<>> }

UserNamePool ==
  { <<>>,
    <<" ">>,
    <<"u","i","d","=","y",",","o","u","=","p",",","d","c","=","a">>,
    <<"U","I","D"," ","=","y",","," ","o","u","=","p",",","d","c","=","a">>,
    <<"u","i","d","=","Y",",","o","u","=","p",",","d","c","=","a">>,
    <<"u","i","d","=","x",",","o","u","=","p",",","d","c","=","a">>,
    <<"o","u","=","g",",","d","c","=","a">>,
    <<"o","u","=","z",",","d","c","=","a">>,
    <<"d","c","=","a">>,
    <<"u","i","d","=","y",",">>,
    <<"u","i","d">> }

PasswordPool == {<<>>, tPw, tPx, <<" ">>}

BindRequests == [isBind : {TRUE}, UserName : UserNamePool, Password : PasswordPool]

\* A message of another kind routed to the bind handler.
NotABind == [isBind |-> FALSE, UserName |-> <<>>, Password |-> <<>>]

InitBind ==
  /\ dit \in {AddEntries(NewDB, es).dit : es \in BindLoads}
  /\ call = [op |-> "NewServer"]
  /\ flt = NoFilter

\* The mux hands a bind message to the handler.
ReceiveBind(req) ==
  /\ call.op = "NewServer"
  /\ call' = [op |-> "request", req |-> req]
  /\ UNCHANGED <<dit, flt>>

\* s.handleBind(w, r)
HandleBind ==
  /\ call.op = "request"
  /\ call' = [op |-> "handleBind", req |-> call.req, code |-> handleBind(dit, call.req)]
  /\ UNCHANGED <<dit, flt>>

NextBind ==
  \/ \E req \in BindRequests \cup {NotABind} : ReceiveBind(req)
  \/ HandleBind

SpecBind == InitBind /\ [][NextBind]_vars

(***************************************************************************)
(* Properties of handleBind.                                               *)
(***************************************************************************)
\* The user name is the text of the DN of a stored entry that the password
\* authenticates.
Authenticated(h, req) ==
  /\ NewDN(req.UserName).err = ""
  /\ \E n \in Desc(h, Root) :
       /\ DNEqual(h[n].Entry.DN, NewDN(req.UserName).dn)
       /\ Authenticate(h[n].Entry, req.Password) = ""

\* C27: handleBind answers Success iff the bind is anonymous, or user name
\* and password are both there and the user name is the DN of a stored entry
\* that the password authenticates; every other answer is InvalidCredentials.
C27_BindResult ==
  call.op = "handleBind" =>
    /\ call.code \in {"ResultSuccess", "ResultInvalidCredentials"}
    /\ (call.code = "ResultSuccess") =
         ( /\ call.req.isBind
           /\ \/ call.req.UserName = <<>> /\ call.req.Password = <<>>
              \/ /\ call.req.UserName # <<>>
                 /\ call.req.Password # <<>>
                 /\ Authenticated(dit, call.req) )

\* A bind as the account, its DN written with other case and white space,
\* with the secret of the second stored value.
C27_Witness ==
  /\ call.op = "handleBind" /\ call.code = "ResultSuccess"
  /\ call.req.UserName =
       <<"U","I","D"," ","=","y",","," ","o","u","=","p",",","d","c","=","a">>
  /\ call.req.Password = tPw

(***************************************************************************)
(* Properties of handleSearch (under SpecServer).                          *)
(***************************************************************************)
\* The stored nodes whose DN is the base DN of the request.
BaseNodes(h, req) ==
  {n \in Desc(h, Root) : DNEqual(h[n].Entry.DN, NewDN(req.BaseDN).dn)}

SupportedScopes == {"BaseObject", "SingleLevel", "WholeSubtree"}

\* The request passes the four checks: its base DN parses and is the DN of
\* a stored node, not the root unless the scope is BaseObject, its filter
\* parses and its scope is supported.
ValidSearch(h, req) ==
  /\ req.isSearch
  /\ NewDN(req.BaseDN).err = ""
  /\ BaseNodes(h, req) # {}
  /\ IsEmpty(NewDN(req.BaseDN).dn) => req.Scope = "BaseObject"
  /\ Parse(req.Filter).err = ""
  /\ req.Scope \in SupportedScopes

\* The nodes the scope enumerates from the base, in its order.
Enumerated(h, req) ==
  LET base == CHOOSE n \in BaseNodes(h, req) : TRUE
  IN CASE req.Scope = "BaseObject" -> <<base>>
       [] req.Scope = "SingleLevel" -> h[base].children
       [] req.Scope = "WholeSubtree" -> walk(h, base)

\* The enumerated nodes whose entry matches the filter, in that order.
Matching(h, req) ==
  SelectSeq(Enumerated(h, req), LAMBDA n : Match(Parse(req.Filter).node, h[n].Entry))

\* The entry responses are those of the matching nodes, one each, in the
\* order of the enumeration, and the done response has code Success.
AllMatchesThenSuccess(h, req, entries, code) ==
  /\ Len(entries) = Len(Matching(h, req))
  /\ \A i \in 1..Len(entries) : entries[i].DN = DNString(h[Matching(h, req)[i]].Entry.DN)
  /\ code = "ResultSuccess"

C28_ErrorOrder ==
  (call.op = "handleSearch" /\ call.req.isSearch /\ ~ValidSearch(dit, call.req)) =>
    /\ call.entries = <<>>
    /\ call.code =
         IF NewDN(call.req.BaseDN).err # "" THEN "ResultInvalidDNSyntax"
         ELSE IF BaseNodes(dit, call.req) = {}
                 \/ (IsEmpty(NewDN(call.req.BaseDN).dn) /\ call.req.Scope # "BaseObject")
         THEN "ResultNoSuchObject"
         ELSE IF Parse(call.req.Filter).err # "" THEN "ResultFilterError"
         ELSE "ResultNotSupported"

\* A request for the root with a scope that is not supported and a filter
\* that does not parse: the answer is that of the base DN.
C28_Witness ==
  /\ call.op = "handleSearch" /\ call.code = "ResultNoSuchObject"
  /\ TrimSpace(call.req.BaseDN) = <<>>
  /\ call.req.Scope \notin SupportedScopes
  /\ Parse(call.req.Filter).err # ""

(***************************************************************************)
(* The shape of the tree under insert (under Spec).                        *)
(***************************************************************************)
\* The places (parent, index) of the children slices that hold n.
PlacesOf(h, n) ==
  {<<p, i>> \in (1..Len(h)) \X (1..Len(h)) : i <= Len(h[p].children) /\ h[p].children[i] = n}

\* From pre to post only the children slice of node p changed and one node,
\* with the entry, was added: every child p lost is a child of the new node,
\* p gained the new node only, and every other node is as it was.
AttachedAt(pre, post, p, entry) ==
  LET new == Len(post)
  IN /\ Len(post) = Len(pre) + 1
     /\ post[new].Entry = entry
     /\ \A q \in 1..Len(pre) : q # p => post[q] = pre[q]
     /\ post[p].Entry = pre[p].Entry
     /\ Range(post[p].children) \cup Range(post[new].children)
          = Range(pre[p].children) \cup {new}
     /\ Range(post[p].children) \cap Range(post[new].children) = {}

\* C29: the nodes reachable from the root are the root and one node for
\* every insert that returned nil; every node but the root is in one
\* children slice, once; an insert that returns an error leaves the tree as
\* it was, and one that returns nil adds the node and changes the children
\* slice of one node only.
C29_TreeShape ==
  /\ Desc(dit, Root) = 1..Len(dit)
  /\ PlacesOf(dit, Root) = {}
  /\ \A n \in 2..Len(dit) : Cardinality(PlacesOf(dit, n)) = 1
  /\ call.op = "insert" =>
       IF call.err THEN dit = call.pre
       ELSE \E p \in 1..Len(call.pre) : AttachedAt(call.pre, dit, p, call.entry)

\* An insert took over a child that has a child of its own.
C29_Witness ==
  /\ call.op = "insert" /\ ~call.err
  /\ \E c \in Range(dit[Len(dit)].children) :
       /\ dit[c].children # <<>>
       /\ dit[c] = call.pre[c]

(***************************************************************************)
(* The ways NewEntryFromMap ends (under SpecEntry).                        *)
(***************************************************************************)
\* C30: NewEntryFromMap ends with an entry or with an error value, never
\* with a panic, whatever the map: a dn or an attribute that is an empty
\* array, a dn that is not a string and a value of an unsupported type
\* included.
C30_NoPanic ==
  call.op = "NewEntryFromMap" =>
    call.err # "panic: index out of range"

(***************************************************************************)
(* Requests served at the same time.  Every request is handled by a call   *)
(* of handleBind or handleSearch of its own, on the one tree of the        *)
(* server; the calls take their steps in any order.  flt holds the message *)
(* of every client, call the place each handler is at: its stage, the      *)
(* number of nodes its range loop was given and the responses it wrote.    *)
(* A step gives the tree it leaves behind along with what it computed.     *)
(***************************************************************************)
MaxClients == 2

Clients == 1..MaxClients

SearchMsg(baseDN, scope, filter) ==
  [msg |-> "search",
   req |-> [isSearch |-> TRUE, BaseDN |-> baseDN, Scope |-> scope, Filter |-> filter,
            Attributes |-> <<>>, TypesOnly |-> FALSE]]

BindMsg(userName, password) ==
  [msg |-> "bind", req |-> [isBind |-> TRUE, UserName |-> userName, Password |-> password]]

Messages ==
  { SearchMsg(<<"d","c","=","a">>, "WholeSubtree",
              Render([kind |-> "not", kid |-> Leaf(tUid, <<"=">>, <<"x">>)])),
    SearchMsg(<<"o","u","=","p",",","d","c","=","a">>, "SingleLevel",
              Render(Leaf(tObjectClass, <<"=">>, <<"*">>))),
    SearchMsg(<<>>, "SingleLevel", Render(Leaf(tObjectClass, <<"=">>, <<"*">>))),
    BindMsg(<<"u","i","d","=","y",",","o","u","=","p",",","d","c","=","a">>, tPw),
    BindMsg(<<"u","i","d","=","y",",","o","u","=","p",",","d","c","=","a">>, tPx) }

EntryResponse(e, req) ==
  [kind |-> "entry", DN |-> DNString(e.DN),
   Attrs |-> SearchAttrs(e, req.Attributes, req.TypesOnly)]

DoneResponse(code) == [kind |-> "done", code |-> code]

BindResponse(code) == [kind |-> "bind", code |-> code]

\* handleSearch down to the switch on the scope: the code it returns with,
\* "" when it goes on to the loop.
searchChecks(h, req) ==
  LET baseDN == NewDN(req.BaseDN)
      base == Find(h, Root, baseDN.dn)
      f == Parse(req.Filter)
  IN [dit |-> h,
      code |-> IF ~req.isSearch THEN "ResultDefault"
               ELSE IF baseDN.err # "" THEN "ResultInvalidDNSyntax"
               ELSE IF base = Nil \/ (IsEmpty(baseDN.dn) /\ req.Scope # "BaseObject")
               THEN "ResultNoSuchObject"
               ELSE IF f.err # "" THEN "ResultFilterError"
               ELSE IF req.Scope \notin {"BaseObject", "SingleLevel", "WholeSubtree"}
               THEN "ResultNotSupported"
               ELSE ""]

\* nodeIter, as the iterator reads it from the tree.
nodeIter(h, req) ==
  LET base == Find(h, Root, NewDN(req.BaseDN).dn)
  IN CASE req.Scope = "BaseObject" -> Self(h, base)
       [] req.Scope = "SingleLevel" -> Children(h, base)
       [] req.Scope = "WholeSubtree" -> All(h, base)

\* One turn of the loop that moves the node it was given to the front of
\* its parent's children, as a self-adjusting tree would.
searchTurnToFront(h, req, given) ==
  LET node == nodeIter(h, req)[given + 1]
      e == h[node].Entry
      front(cs) == <<node>> \o SelectSeq(cs, LAMBDA c : c # node)
  IN [dit |-> [n \in 1..Len(h) |->
                 IF node \in Range(h[n].children)
                 THEN [h[n] EXCEPT !.children = front(@)] ELSE h[n]],
      written |-> IF Match(Parse(req.Filter).node, e) THEN <<EntryResponse(e, req)>>
                  ELSE <<>>]

\* One turn of the loop over nodeIter, for the node after the given ones:
\* the entry response written when the entry matches.
searchTurn(h, req, given) ==
  LET node == nodeIter(h, req)[given + 1]
      e == h[node].Entry
  IN [dit |-> h,
      written |-> IF Match(Parse(req.Filter).node, e) THEN <<EntryResponse(e, req)>>
                  ELSE <<>>]

\* handleBind as one step.
bindStep(h, req) == [dit |-> h, written |-> <<BindResponse(handleBind(h, req))>>]

Received == [stage |-> "received", given |-> 0, out |-> <<>>, overlapped |-> FALSE]

InitConc ==
  /\ dit \in {AddEntries(NewDB, es).dit : es \in {<<eCom, ePeople, eStaff, eAlice, eBob>>,
                                                  <<eBob, eAlice, eCom>>}}
  /\ flt \in [Clients -> Messages]
  /\ call = [op |-> "serving", pre |-> dit, at |-> [c \in Clients |-> Received]]

\* Another handler is between its first step and its last.
Overlaps(c) == \E d \in Clients \ {c} : call.at[d].stage = "loop"

AtAfter(c, stage, given, written) ==
  [call.at EXCEPT ![c] = [stage |-> stage, given |-> given, out |-> @.out \o written,
                          overlapped |-> @.overlapped \/ Overlaps(c)]]

\* handleSearch of client c from its start to the loop.
StartSearch(c) ==
  /\ flt[c].msg = "search" /\ call.at[c].stage = "received"
  /\ LET r == searchChecks(dit, flt[c].req)
     IN /\ dit' = r.dit
        /\ call' = [call EXCEPT !.at =
                      IF r.code = "" THEN AtAfter(c, "loop", 0, <<>>)
                      ELSE AtAfter(c, "done", 0, <<DoneResponse(r.code)>>)]
  /\ UNCHANGED flt

\* One turn of the loop of client c.
TurnSearch(c) ==
  /\ flt[c].msg = "search" /\ call.at[c].stage = "loop"
  /\ call.at[c].given < Len(nodeIter(dit, flt[c].req))
  /\ LET r == searchTurn(dit, flt[c].req, call.at[c].given)
     IN /\ dit' = r.dit
        /\ call' = [call EXCEPT !.at = AtAfter(c, "loop", call.at[c].given + 1, r.written)]
  /\ UNCHANGED flt

\* The loop of client c is over: the done response with Success.
EndSearch(c) ==
  /\ flt[c].msg = "search" /\ call.at[c].stage = "loop"
  /\ call.at[c].given = Len(nodeIter(dit, flt[c].req))
  /\ call' = [call EXCEPT !.at =
                AtAfter(c, "done", call.at[c].given, <<DoneResponse("ResultSuccess")>>)]
  /\ UNCHANGED <<dit, flt>>

\* handleBind of client c.
ServeBind(c) ==
  /\ flt[c].msg = "bind" /\ call.at[c].stage = "received"
  /\ LET r == bindStep(dit, flt[c].req)
     IN /\ dit' = r.dit
        /\ call' = [call EXCEPT !.at = AtAfter(c, "done", 0, r.written)]
  /\ UNCHANGED flt

NextConc ==
  \/ \E c \in Clients : StartSearch(c)
  \/ \E c \in Clients : TurnSearch(c)
  \/ \E c \in Clients : EndSearch(c)
  \/ \E c \in Clients : ServeBind(c)

SpecConc == InitConc /\ [][NextConc]_vars

\* The responses a message gets from a handler that runs alone.
Alone(h, m) ==
  IF m.msg = "bind" THEN <<BindResponse(handleBind(h, m.req))>>
  ELSE LET r == handleSearch(h, m.req, 0)
       IN [i \in 1..Len(r.entries) |->
             [kind |-> "entry", DN |-> r.entries[i].DN, Attrs |-> r.entries[i].Attrs]]
          \o <<DoneResponse(r.code)>>

IsPrefix(s, t) == Len(s) <= Len(t) /\ s = SubSeq(t, 1, Len(s))

\* C25: while requests are served, in whatever order their handlers take
\* their steps, the tree stays the one AddEntries left, and every handler
\* writes the responses it writes when it runs alone on that tree.
C25_ReadOnly ==
  /\ dit = call.pre
  /\ \A c \in Clients :
       /\ IsPrefix(call.at[c].out, Alone(call.pre, flt[c]))
       /\ call.at[c].stage = "done" => call.at[c].out = Alone(call.pre, flt[c])

\* Two subtree searches took their turns in between each other's and each
\* wrote its four entry responses and its done response.
C25_Witness ==
  /\ \A c \in {1, 2} :
       /\ flt[c].msg = "search" /\ flt[c].req.Scope = "WholeSubtree"
       /\ call.at[c].stage = "done"
       /\ call.at[c].overlapped
       /\ Len(call.at[c].out) = 5

====
